---- MODULE Spec2Model ----
(***************************************************************************)
(* A model of the linear quadtree of sunsided/space-partitioning           *)
(* (src/src/quadtree/*.rs).  The model follows the release build: debug    *)
(* assertions are compiled out, and QuadTree::remove stops scanning a leaf *)
(* at the first match.                                                     *)
(*                                                                         *)
(* Handles and node indices are 0-based as in the source; the TLA+         *)
(* sequences that hold the vectors are 1-based, hence the "+ 1" in every   *)
(* subscript.                                                              *)
(***************************************************************************)
EXTENDS Integers, Sequences, FiniteSets, TLC

(***************************************************************************)
(* Bounds of the model.                                                    *)
(***************************************************************************)
\* Element ids are drawn from 1..MaxId.
MaxId == 2
\* Inserts are offered while the element free-lists hold fewer slots than this.
MaxSlots == 3
\* The modelled trees are built with max_depth = MaxDepth ...
MaxDepth == 2
\* ... and with max_num_elements in 1..MaxLeafElements.
MaxLeafElements == 1
MaxCoord == 2
MaxEntries == 3

\* free_list::SENTINEL and node::NODE_IS_BRANCH are both u32::MAX in the
\* source.  TLC's integers are 32-bit signed, so the model takes the largest
\* value TLC has: like u32::MAX it exceeds every handle, index and count that
\* occurs, and no arithmetic is done on it.
SENTINEL == 2147483647
NODE_IS_BRANCH == 2147483647

(***************************************************************************)
(* Integer helpers.                                                        *)
(***************************************************************************)
\* x >> 1 on i32: an arithmetic shift, i.e. the floor of x / 2.
Shr1(x) == IF x >= 0 THEN x \div 2 ELSE -((1 - x) \div 2)
\* i32::max / i32::min
Max(a, b) == IF a >= b THEN a ELSE b
Min(a, b) == IF a <= b THEN a ELSE b
\* code & mask for a mask that is a single bit.
BitAnd(code, mask) == ((code \div mask) % 2) * mask
\* Last element and all-but-last of a non-empty sequence (Vec::pop).
Back(s) == s[Len(s)]
PopBack(s) == SubSeq(s, 1, Len(s) - 1)

(***************************************************************************)
(* AABB and its intersection test (aabb.rs).                               *)
(***************************************************************************)
AABB_new(x1, y1, x2, y2) == [tlx |-> x1, tly |-> y1, brx |-> x2, bry |-> y2]

\* intersects_with with the degenerate test looking at other only.
intersects_with_other_degenerate(self, other) ==
    LET x1_max == Max(self.tlx, other.tlx)
        x2_min == Min(self.brx, other.brx)
        y1_max == Max(self.tly, other.tly)
        y2_min == Min(self.bry, other.bry)
        a == x1_max < x2_min
        b == y1_max < y2_min
        intersects == a /\ b
        d_a == x1_max <= x2_min
        d_b == y1_max <= y2_min
        degenerate_x == other.tlx = other.brx
        degenerate_y == other.tly = other.bry
        is_degenerate == degenerate_x \/ degenerate_y
        d_intersects == is_degenerate /\ d_a /\ d_b
    IN  intersects \/ d_intersects

\* intersects_with with the strict comparison in the degenerate case too.
intersects_with_always_strict(self, other) ==
    LET x1_max == Max(self.tlx, other.tlx)
        x2_min == Min(self.brx, other.brx)
        y1_max == Max(self.tly, other.tly)
        y2_min == Min(self.bry, other.bry)
        a == x1_max < x2_min
        b == y1_max < y2_min
        intersects == a /\ b
        d_a == x1_max < x2_min
        d_b == y1_max < y2_min
        degenerate_x == (other.tlx = other.brx) \/ (self.tlx = self.brx)
        degenerate_y == (other.tly = other.bry) \/ (self.tly = self.bry)
        is_degenerate == degenerate_x \/ degenerate_y
        d_intersects == is_degenerate /\ d_a /\ d_b
    IN  intersects \/ d_intersects

\* intersects_with with the relaxed comparison in the rect/rect case too.
intersects_with_always_relaxed(self, other) ==
    LET x1_max == Max(self.tlx, other.tlx)
        x2_min == Min(self.brx, other.brx)
        y1_max == Max(self.tly, other.tly)
        y2_min == Min(self.bry, other.bry)
        a == x1_max <= x2_min
        b == y1_max <= y2_min
        intersects == a /\ b
        d_a == x1_max <= x2_min
        d_b == y1_max <= y2_min
        degenerate_x == (other.tlx = other.brx) \/ (self.tlx = self.brx)
        degenerate_y == (other.tly = other.bry) \/ (self.tly = self.bry)
        is_degenerate == degenerate_x \/ degenerate_y
        d_intersects == is_degenerate /\ d_a /\ d_b
    IN  intersects \/ d_intersects

intersects_with(self, other) ==
    LET x1_max == Max(self.tlx, other.tlx)
        x2_min == Min(self.brx, other.brx)
        y1_max == Max(self.tly, other.tly)
        y2_min == Min(self.bry, other.bry)
        a == x1_max < x2_min
        b == y1_max < y2_min
        intersects == a /\ b
        d_a == x1_max <= x2_min
        d_b == y1_max <= y2_min
        degenerate_x == (other.tlx = other.brx) \/ (self.tlx = self.brx)
        degenerate_y == (other.tly = other.bry) \/ (self.tly = self.bry)
        is_degenerate == degenerate_x \/ degenerate_y
        d_intersects == is_degenerate /\ d_a /\ d_b
    IN  intersects \/ d_intersects

(***************************************************************************)
(* QuadRect (quad_rect.rs).                                                *)
(***************************************************************************)
QuadRect_contains(self, rect) ==
    LET mx == Shr1(rect.tlx + rect.brx)
        my == Shr1(rect.tly + rect.bry)
        r == self.l + self.hx
        b == self.t + self.hy
    IN  mx >= self.l /\ mx <= r /\ my >= self.t /\ my <= b

QuadRect_into_AABB(self) ==
    AABB_new(self.l, self.t, self.l + self.hx, self.t + self.hy)

(***************************************************************************)
(* Quadrants (quadrants.rs): a 5-bit code.                                 *)
(***************************************************************************)
B2N(b) == IF b THEN 1 ELSE 0

Quadrants_from_tests(explore_left, explore_top, explore_right, explore_bottom) ==
    LET covers_many == (explore_left /\ explore_right) \/ (explore_top /\ explore_bottom)
        this == B2N(covers_many)
        top_left == B2N(explore_top /\ explore_left) * 2
        top_right == B2N(explore_top /\ explore_right) * 4
        bottom_left == B2N(explore_bottom /\ explore_left) * 8
        bottom_right == B2N(explore_bottom /\ explore_right) * 16
    IN  [code |-> this + top_left + top_right + bottom_left + bottom_right]

Quadrants_from_intersections(tl, tr, bl, br) ==
    LET covers_many == (tl /\ tr) \/ (tl /\ bl) \/ (tr /\ br) \/ (tl /\ br)
    IN  [code |-> B2N(covers_many) + B2N(tl) * 2 + B2N(tr) * 4
                  + B2N(bl) * 8 + B2N(br) * 16]

Quadrants_all == [code |-> 1 + 2 + 4 + 8 + 16]

Quadrants_this(q) == BitAnd(q.code, 1) = 1
Quadrants_top_left(q) == BitAnd(q.code, 2) = 2
Quadrants_top_right(q) == BitAnd(q.code, 4) = 4
Quadrants_bottom_left(q) == BitAnd(q.code, 8) = 5
Quadrants_bottom_right(q) == BitAnd(q.code, 16) = 6
Quadrants_at(q, index) == BitAnd(q.code, 2 ^ index) = 2 ^ index
\* Quadrants::mutation_index: the index into [this, TL, TR, BL, BR].
Quadrants_mutation_index(q) ==
    LET bits == q.code
        offset_this == BitAnd(bits, 1)
        offset_tl == BitAnd(bits \div 2, 1)
        offset_tr == BitAnd(bits \div 4, 1)
        offset_bl == BitAnd(bits \div 8, 1)
        offset_br == BitAnd(bits \div 16, 1)
    IN  (offset_tl + (offset_tr * 2) + (offset_bl * 3) + (offset_br * 4)) * (1 - offset_this)

\* quadrants[offset], as used by the query descent.
Quadrants_index(q, offset) == Quadrants_at(q, offset)

(***************************************************************************)
(* CenteredAABB (centered_aabb.rs).                                        *)
(***************************************************************************)
CenteredAABB_from_ltwh(left, top, width, height) ==
    LET hx == Shr1(width)
        hy == Shr1(height)
    IN  [center_x |-> left + hx, center_y |-> top + hy,
         half_width |-> hx, half_height |-> hy]

CenteredAABB_left(c) == c.center_x - c.half_width
CenteredAABB_right(c) == c.center_x + c.half_width
CenteredAABB_top(c) == c.center_y - c.half_height
CenteredAABB_bottom(c) == c.center_y + c.half_height

CenteredAABB_get_aabb(c) ==
    AABB_new(CenteredAABB_left(c), CenteredAABB_top(c),
             CenteredAABB_right(c), CenteredAABB_bottom(c))

explore_quadrants_aabb(self, other) ==
    LET explore_top == other.tly <= self.center_y
        explore_bottom == other.bry > self.center_y
        explore_left == other.tlx <= self.center_x
        explore_right == other.brx > self.center_x
    IN  Quadrants_from_tests(explore_left, explore_top, explore_right, explore_bottom)

\* The generic classifier, for a shape that is itself an AABB.
explore_quadrants_generic(self, other) ==
    LET l == CenteredAABB_left(self)
        r == CenteredAABB_right(self)
        t == CenteredAABB_top(self)
        b == CenteredAABB_bottom(self)
        top_left == AABB_new(l, t, self.center_x, self.center_y)
        top_right == AABB_new(self.center_x, t, r, self.center_y)
        bottom_left == AABB_new(l, self.center_y, self.center_x, b)
        bottom_right == AABB_new(self.center_x, self.center_y, r, b)
    IN  Quadrants_from_intersections(
            intersects_with(other, top_left),
            intersects_with(other, top_right),
            intersects_with(other, bottom_left),
            intersects_with(other, bottom_right))

\* The four quadrant cells [top_left, top_right, bottom_left, bottom_right].
split_quadrants(self) ==
    LET hx == Shr1(self.half_width)
        hy == Shr1(self.half_height)
        mx == self.center_x - hx
        my == self.center_y - hy
        mx2 == CenteredAABB_right(self) - hx
        my2 == CenteredAABB_bottom(self) - hy
        cell(cx, cy) == [center_x |-> cx, center_y |-> cy,
                         half_width |-> hx, half_height |-> hy]
    IN  <<cell(mx, my), cell(mx2, my), cell(mx, my2), cell(mx2, my2)>>

\* The five cells indexed by child offset 0..4: offset 0, the "this" bucket,
\* shares the cell of its parent.
split_quadrants5(self) ==
    [offset \in 0..4 |-> IF offset = 0 THEN self ELSE split_quadrants(self)[offset]]

(***************************************************************************)
(* FreeList (free_list.rs).  A cell of the union is either a live element   *)
(* or, once erased, the index of the next free cell.                        *)
(***************************************************************************)
FreeList_default == [data |-> <<>>, first_free |-> SENTINEL]

LiveCell(v) == [tag |-> "element", element |-> v]
FreeCell(n) == [tag |-> "next", next |-> n]

\* FreeList::insert that leaves first_free on the cell it hands out.
FreeList_insert_keeping_first_free(self, element) ==
    IF self.first_free # SENTINEL
    THEN LET index == self.first_free
         IN  [list |-> [data |-> [self.data EXCEPT ![index + 1] = LiveCell(element)],
                        first_free |-> self.first_free],
              index |-> index]
    ELSE [list |-> [data |-> Append(self.data, LiveCell(element)),
                    first_free |-> self.first_free],
          index |-> Len(self.data)]

\* FreeList::insert: the list after the call and the handle it returns.
FreeList_insert(self, element) ==
    IF self.first_free # SENTINEL
    THEN LET index == self.first_free
         IN  [list |-> [data |-> [self.data EXCEPT ![index + 1] = LiveCell(element)],
                        first_free |-> self.data[index + 1].next],
              index |-> index]
    ELSE [list |-> [data |-> Append(self.data, LiveCell(element)),
                    first_free |-> self.first_free],
          index |-> Len(self.data)]

\* FreeList::erase
FreeList_erase(self, n) ==
    LET cleared == [self EXCEPT !.first_free = SENTINEL]
    IN  IF Len(cleared.data) = 0
        THEN cleared
        ELSE [data |-> [cleared.data EXCEPT ![n + 1] = FreeCell(cleared.first_free)],
              first_free |-> n]

\* FreeList::is_in_free_list: the walk along the free chain from token.
RECURSIVE FreeList_free_chain_has(_, _, _)
FreeList_free_chain_has(self, n, token) ==
    IF token = SENTINEL
    THEN FALSE
    ELSE IF n = token
    THEN TRUE
    ELSE FreeList_free_chain_has(self, n, self.data[token + 1].next)

FreeList_is_in_free_list(self, n) == FreeList_free_chain_has(self, n, self.first_free)

\* The value of the debug assertion in FreeList::erase, evaluated where the
\* code evaluates it: after first_free was reset and the empty list returned.
FreeList_erase_debug_assert(self, n) ==
    LET cleared == [self EXCEPT !.first_free = SENTINEL]
    IN  IF Len(cleared.data) = 0
        THEN TRUE
        ELSE ~FreeList_is_in_free_list(cleared, n)

\* FreeList::erase in a debug build: a failed assertion ends the call.
FreeList_erase_debug(self, n) ==
    IF FreeList_erase_debug_assert(self, n)
    THEN [list |-> FreeList_erase(self, n), ret |-> "done"]
    ELSE [list |-> self, ret |-> "panic"]

\* FreeList::at
FreeList_at(self, index) == self.data[index + 1].element

\* FreeList::capacity
FreeList_capacity(self) == Len(self.data)

\* FreeList::debug_len, the number of elements the list holds: the cells
\* that have not been erased.
FreeList_debug_len(self) ==
    Cardinality({i \in 1..Len(self.data) : self.data[i].tag = "element"})

(***************************************************************************)
(* Node (node.rs) and NodeData (node_data.rs).                             *)
(***************************************************************************)
Node_default == [first_child_or_element |-> SENTINEL, element_count |-> 0]
Node_is_empty(n) == n.element_count = 0
Node_is_branch(n) == n.element_count = NODE_IS_BRANCH
Node_is_leaf(n) == ~Node_is_branch(n)
Node_make_empty_leaf(n) == [first_child_or_element |-> SENTINEL, element_count |-> 0]
Node_make_branch(n, first_child) ==
    [first_child_or_element |-> first_child, element_count |-> NODE_IS_BRANCH]

NodeData_new(crect, index, depth, can_split) ==
    [crect |-> crect, index |-> index, depth |-> depth, can_split |-> can_split]

NodeData_new_from_root(rect, can_split) ==
    NodeData_new(CenteredAABB_from_ltwh(rect.l, rect.t, rect.hx, rect.hy), 0, 0, can_split)

\* Mutant of can_subdivide: the size of the cell is not looked at.
can_subdivide_any_size(nd, smallest_size) == TRUE

can_subdivide(nd, smallest_size) ==
    LET can_split_width == nd.crect.half_width >= smallest_size
        can_split_height == nd.crect.half_height >= smallest_size
    IN  can_split_width \/ can_split_height

\* Mutant of can_split_further: the depth of the node is not compared with
\* the maximum depth.
can_split_further_at_any_depth(nd, smallest_size, maxdepth) ==
    LET splittable == nd.can_split
        split_allowed == can_subdivide(nd, smallest_size)
    IN  split_allowed /\ splittable

can_split_further(nd, smallest_size, maxdepth) ==
    LET splittable == nd.can_split
        split_allowed == can_subdivide(nd, smallest_size)
        can_go_deeper == nd.depth < maxdepth
    IN  split_allowed /\ can_go_deeper /\ splittable

(***************************************************************************)
(* QuadTree (quadtree.rs).  A tree value is the record of the fields of    *)
(* the struct.                                                             *)
(***************************************************************************)
QuadTree_new(root_rect, max_depth, max_num_elements, smallest_cell_size) ==
    [element_ids |-> FreeList_default,
     element_rects |-> FreeList_default,
     element_nodes |-> FreeList_default,
     nodes |-> <<Node_default>>,
     root_rect |-> root_rect,
     free_node |-> SENTINEL,
     max_depth |-> max_depth,
     max_num_elements |-> max_num_elements,
     smallest_cell_size |-> smallest_cell_size]

get_root_node_data(self) == NodeData_new_from_root(self.root_rect, TRUE)

\* The debug assertion at the top of collect_relevant_quadrants_for_mutation:
\* the XOR of the five slot flags.
mutation_debug_assert(quadrants) ==
    (B2N(Quadrants_this(quadrants)) + B2N(Quadrants_top_left(quadrants))
     + B2N(Quadrants_top_right(quadrants)) + B2N(Quadrants_bottom_left(quadrants))
     + B2N(Quadrants_bottom_right(quadrants))) % 2 = 1

\* The child offset collect_relevant_quadrants_for_mutation descends into.
mutation_offset(quadrants) ==
    IF Quadrants_this(quadrants) THEN 0
    ELSE IF Quadrants_top_left(quadrants) THEN 1
    ELSE IF Quadrants_top_right(quadrants) THEN 2
    ELSE IF Quadrants_bottom_left(quadrants) THEN 3
    ELSE 4

\* Pushes the single child a mutation descends into.
collect_relevant_quadrants_for_mutation(to_process, depth, first_child_id, quadrants, cells) ==
    LET offset == IF Quadrants_this(quadrants) THEN 0
                  ELSE IF Quadrants_top_left(quadrants) THEN 1
                  ELSE IF Quadrants_top_right(quadrants) THEN 2
                  ELSE IF Quadrants_bottom_left(quadrants) THEN 3
                  ELSE 4
        can_split == offset > 0
        child_depth == IF offset = 0 THEN 0 ELSE depth + 1
    IN  Append(to_process,
               NodeData_new(cells[offset], first_child_id + offset, child_depth, can_split))

\* Pushes the marked quadrants 4, 3, 2, 1 and then always the "this" bucket.
QueryPush(to_process, offset, depth, first_child_id, quadrants, cells) ==
    IF Quadrants_index(quadrants, offset)
    THEN Append(to_process,
                NodeData_new(cells[offset], first_child_id + offset, depth + 1, TRUE))
    ELSE to_process

\* Mutant of collect_relevant_quadrants_for_query: the "this" bucket is
\* pushed one level deeper than its parent, like the quadrant children.
collect_relevant_quadrants_for_query_bucket_deeper(to_process, depth, first_child_id, quadrants, cells) ==
    LET p4 == QueryPush(to_process, 4, depth, first_child_id, quadrants, cells)
        p3 == QueryPush(p4, 3, depth, first_child_id, quadrants, cells)
        p2 == QueryPush(p3, 2, depth, first_child_id, quadrants, cells)
        p1 == QueryPush(p2, 1, depth, first_child_id, quadrants, cells)
    IN  Append(p1, NodeData_new(cells[0], first_child_id + 0, depth + 1, FALSE))

collect_relevant_quadrants_for_query(to_process, depth, first_child_id, quadrants, cells) ==
    LET p4 == QueryPush(to_process, 4, depth, first_child_id, quadrants, cells)
        p3 == QueryPush(p4, 3, depth, first_child_id, quadrants, cells)
        p2 == QueryPush(p3, 2, depth, first_child_id, quadrants, cells)
        p1 == QueryPush(p2, 1, depth, first_child_id, quadrants, cells)
    IN  Append(p1, NodeData_new(cells[0], first_child_id + 0, depth, FALSE))

collect_relevant_quadrants(to_process, nd, first_child_id, quadrants, hint) ==
    LET cells == split_quadrants5(nd.crect)
    IN  IF hint = "Query"
        THEN collect_relevant_quadrants_for_query(
                 to_process, nd.depth, first_child_id, quadrants, cells)
        ELSE collect_relevant_quadrants_for_mutation(
                 to_process, nd.depth, first_child_id, quadrants, cells)

\* The loop of find_leaves_aabb.
RECURSIVE find_leaves_aabb_loop(_, _, _, _, _)
find_leaves_aabb_loop(self, to_process, leaves, rect, hint) ==
    IF Len(to_process) = 0
    THEN leaves
    ELSE LET nd == Back(to_process)
             rest == PopBack(to_process)
             node == self.nodes[nd.index + 1]
         IN  IF Node_is_leaf(node)
             THEN find_leaves_aabb_loop(self, rest, Append(leaves, nd), rect, hint)
             ELSE LET fc == node.first_child_or_element
                      quadrants == explore_quadrants_aabb(nd.crect, rect)
                  IN  find_leaves_aabb_loop(
                          self,
                          collect_relevant_quadrants(rest, nd, fc, quadrants, hint),
                          leaves, rect, hint)

find_leaves_aabb(self, root, rect, hint) ==
    find_leaves_aabb_loop(self, <<root>>, <<>>, rect, hint)

\* The loop of find_leaves_generic, for a shape that is an AABB.
RECURSIVE find_leaves_generic_loop(_, _, _, _)
find_leaves_generic_loop(self, to_process, leaves, element) ==
    IF Len(to_process) = 0
    THEN leaves
    ELSE LET nd == Back(to_process)
             rest == PopBack(to_process)
             node == self.nodes[nd.index + 1]
         IN  IF Node_is_leaf(node)
             THEN find_leaves_generic_loop(self, rest, Append(leaves, nd), element)
             ELSE LET fc == node.first_child_or_element
                      quadrants == explore_quadrants_generic(nd.crect, element)
                  IN  find_leaves_generic_loop(
                          self,
                          collect_relevant_quadrants(rest, nd, fc, quadrants, "Query"),
                          leaves, element)

find_leaves_generic(self, root, element) ==
    find_leaves_generic_loop(self, <<root>>, <<>>, element)

\* Mutant of ensure_child_nodes_exist: a recycled group is handed out but
\* free_node stays on it.
ensure_child_nodes_exist_keeping_free_node(self) ==
    IF self.free_node # SENTINEL
    THEN LET node_index == self.free_node
         IN  [tree |-> [self EXCEPT !.nodes[node_index + 1] = Node_default],
              index |-> node_index]
    ELSE [tree |-> [self EXCEPT !.nodes = self.nodes \o
                        <<Node_default, Node_default, Node_default,
                          Node_default, Node_default>>],
          index |-> Len(self.nodes)]

\* Mutant of ensure_child_nodes_exist: five nodes are appended even when a
\* freed group is available.
ensure_child_nodes_exist_always_appending(self) ==
    [tree |-> [self EXCEPT !.nodes = self.nodes \o
                  <<Node_default, Node_default, Node_default,
                    Node_default, Node_default>>],
     index |-> Len(self.nodes)]

\* ensure_child_nodes_exist: the tree after the call and the index of the
\* first node of the five-node group.
ensure_child_nodes_exist(self) ==
    IF self.free_node # SENTINEL
    THEN LET node_index == self.free_node
             next_free_node == self.nodes[node_index + 1].first_child_or_element
         IN  [tree |-> [self EXCEPT !.nodes[node_index + 1] = Node_default,
                                    !.free_node = next_free_node],
              index |-> node_index]
    ELSE [tree |-> [self EXCEPT !.nodes = self.nodes \o
                        <<Node_default, Node_default, Node_default,
                          Node_default, Node_default>>],
          index |-> Len(self.nodes)]

\* Mutant of insert_element_in_child_node: the element node is linked in but
\* the child's element_count is not incremented.
insert_element_in_child_node_uncounted(self, child_index, element) ==
    LET node == self.nodes[child_index + 1]
        link(ins) ==
            [self EXCEPT !.element_nodes = ins.list,
                         !.nodes[child_index + 1] =
                             [first_child_or_element |-> ins.index,
                              element_count |-> node.element_count]]
    IN  link(FreeList_insert(self.element_nodes,
                 [element_idx |-> element, next |-> node.first_child_or_element]))

insert_element_in_child_node(self, child_index, element) ==
    LET node == self.nodes[child_index + 1]
        link(ins) ==
            [self EXCEPT !.element_nodes = ins.list,
                         !.nodes[child_index + 1] =
                             [first_child_or_element |-> ins.index,
                              element_count |-> node.element_count + 1]]
    IN  link(FreeList_insert(self.element_nodes,
                 [element_idx |-> element, next |-> node.first_child_or_element]))

\* Mutant of assign_offset: an element that covers several quadrants is not
\* stored in the bucket at offset 0 but falls through the if-chain.
assign_offset_dropping_straddlers(mx, my, element_rect) ==
    LET insert_left == element_rect.tlx <= mx
        insert_right == element_rect.brx > mx
        insert_top == element_rect.tly <= my
        insert_bottom == element_rect.bry > my
        covers_many == (insert_top /\ insert_bottom) \/ (insert_left /\ insert_right)
    IN  IF covers_many THEN 5
        ELSE IF insert_top /\ insert_left THEN 1
        ELSE IF insert_top /\ insert_right THEN 2
        ELSE IF insert_bottom /\ insert_left THEN 3
        ELSE IF insert_bottom /\ insert_right THEN 4
        ELSE 5

\* The child offset assign_element_to_child_nodes selects; 5 stands for the
\* fall-through in which no branch of the if-chain is taken.
assign_offset(mx, my, element_rect) ==
    LET insert_left == element_rect.tlx <= mx
        insert_right == element_rect.brx > mx
        insert_top == element_rect.tly <= my
        insert_bottom == element_rect.bry > my
        covers_many == (insert_top /\ insert_bottom) \/ (insert_left /\ insert_right)
    IN  IF covers_many THEN 0
        ELSE IF insert_top /\ insert_left THEN 1
        ELSE IF insert_top /\ insert_right THEN 2
        ELSE IF insert_bottom /\ insert_left THEN 3
        ELSE IF insert_bottom /\ insert_right THEN 4
        ELSE 5

\* Mutant of assign_element_to_child_nodes: an element that goes to a
\* quadrant child is linked into the straddler bucket as well.
assign_element_to_child_nodes_and_bucket(self, mx, my, first_child_index, element_index, element_rect) ==
    LET offset == assign_offset(mx, my, element_rect)
    IN  IF offset = 5
        THEN self
        ELSE IF offset = 0
        THEN insert_element_in_child_node(self, first_child_index, element_index)
        ELSE insert_element_in_child_node(
                 insert_element_in_child_node(self, first_child_index + offset, element_index),
                 first_child_index, element_index)

assign_element_to_child_nodes(self, mx, my, first_child_index, element_index, element_rect) ==
    LET offset == assign_offset(mx, my, element_rect)
    IN  IF offset = 5
        THEN self
        ELSE insert_element_in_child_node(self, first_child_index + offset, element_index)

\* Mutant of distribute_loop: the leaf's old element nodes are not erased
\* after their elements have been assigned to the children.
RECURSIVE distribute_loop_keeping_element_nodes(_, _, _, _, _)
distribute_loop_keeping_element_nodes(self, element_node_index, mx, my, first_child_index) ==
    IF element_node_index = SENTINEL
    THEN self
    ELSE LET element_node == FreeList_at(self.element_nodes, element_node_index)
             element == FreeList_at(self.element_rects, element_node.element_idx)
         IN  distribute_loop_keeping_element_nodes(
                 assign_element_to_child_nodes(
                     self, mx, my, first_child_index,
                     element_node.element_idx, element),
                 element_node.next, mx, my, first_child_index)

\* The while loop of distribute_elements_to_child_nodes.
RECURSIVE distribute_loop(_, _, _, _, _)
distribute_loop(self, element_node_index, mx, my, first_child_index) ==
    IF element_node_index = SENTINEL
    THEN self
    ELSE LET element_node == FreeList_at(self.element_nodes, element_node_index)
             element == FreeList_at(self.element_rects, element_node.element_idx)
             erase(assigned) ==
                 [assigned EXCEPT !.element_nodes =
                     FreeList_erase(assigned.element_nodes, element_node_index)]
         IN  distribute_loop(
                 erase(assign_element_to_child_nodes(
                           self, mx, my, first_child_index,
                           element_node.element_idx, element)),
                 element_node.next, mx, my, first_child_index)

distribute_elements_to_child_nodes(self, parent) ==
    LET split(ensured) ==
            LET first_child_index == ensured.index
                node == ensured.tree.nodes[parent.index + 1]
                element_node_index == node.first_child_or_element
                branched == [ensured.tree EXCEPT !.nodes[parent.index + 1] =
                                Node_make_branch(node, first_child_index)]
            IN  distribute_loop(branched, element_node_index,
                                parent.crect.center_x, parent.crect.center_y,
                                first_child_index)
    IN  split(ensure_child_nodes_exist(self))

\* The inner loop of insert over the leaves found for one work item: the
\* tree and the work stack after it.
RECURSIVE insert_leaves_loop(_, _, _, _)
insert_leaves_loop(self, leaves, to_process, element_idx) ==
    IF Len(leaves) = 0
    THEN [tree |-> self, to_process |-> to_process]
    ELSE LET leaf == Back(leaves)
             node == self.nodes[leaf.index + 1]
             can_split == can_split_further(leaf, self.smallest_cell_size, self.max_depth)
             node_is_full == node.element_count >= self.max_num_elements
             must_store_element == ~node_is_full \/ ~can_split
             link(ins) ==
                 [self EXCEPT !.element_nodes = ins.list,
                              !.nodes[leaf.index + 1] =
                                  [first_child_or_element |-> ins.index,
                                   element_count |-> node.element_count + 1]]
         IN  IF must_store_element
             THEN insert_leaves_loop(
                      link(FreeList_insert(self.element_nodes,
                               [element_idx |-> element_idx,
                                next |-> node.first_child_or_element])),
                      PopBack(leaves), to_process, element_idx)
             ELSE insert_leaves_loop(
                      distribute_elements_to_child_nodes(self, leaf),
                      PopBack(leaves), Append(to_process, leaf), element_idx)

\* The outer loop of insert over the work stack.
RECURSIVE insert_process_loop(_, _, _, _)
insert_process_loop(self, to_process, element_idx, element_coords) ==
    IF Len(to_process) = 0
    THEN self
    ELSE LET node_data == Back(to_process)
             leaves == find_leaves_aabb(self, node_data, element_coords, "Mutate")
             continue(r) ==
                 insert_process_loop(r.tree, r.to_process, element_idx, element_coords)
         IN  continue(insert_leaves_loop(self, leaves, PopBack(to_process), element_idx))

\* QuadTree::insert once the bounds check has passed.
insert_accepted(self, element) ==
    LET store(ids, rects) ==
            insert_process_loop(
                [self EXCEPT !.element_ids = ids.list, !.element_rects = rects.list],
                <<get_root_node_data(self)>>, ids.index, element.rect)
    IN  store(FreeList_insert(self.element_ids, element.id),
              FreeList_insert(self.element_rects, element.rect))

\* Mutant of insert: the element is stored in the element lists before the
\* bounds check.
insert_storing_before_check(self, element) ==
    LET stored == [self EXCEPT
            !.element_ids = FreeList_insert(self.element_ids, element.id).list,
            !.element_rects = FreeList_insert(self.element_rects, element.rect).list]
    IN  IF ~QuadRect_contains(self.root_rect, element.rect)
        THEN [tree |-> stored, ret |-> "OutOfBounds"]
        ELSE [tree |-> insert_accepted(self, element), ret |-> "Ok"]

\* QuadTree::insert: the tree after the call and its result.
insert(self, element) ==
    IF ~QuadRect_contains(self.root_rect, element.rect)
    THEN [tree |-> self, ret |-> "OutOfBounds"]
    ELSE [tree |-> insert_accepted(self, element), ret |-> "Ok"]

\* Mutant of remove_scan_start: the new list head starts out as the sentinel
\* instead of the current head.
remove_scan_start_at_sentinel(self, first) ==
    [tree |-> self, element_found |-> FALSE,
     found_element_idx |-> SENTINEL, new_first |-> SENTINEL]

\* The locals of remove before the scan of a leaf: nothing found, the list
\* head unchanged.
remove_scan_start(self, first) ==
    [tree |-> self, element_found |-> FALSE,
     found_element_idx |-> SENTINEL, new_first |-> first]

\* The scan of one leaf's element list in remove.  The result carries the
\* tree, whether the id was found, the element handle found and the new
\* list head of the leaf.
RECURSIVE remove_scan(_, _, _, _, _)
remove_scan(self, id, first, element_node_idx, prev_element_node_idx) ==
    IF element_node_idx = SENTINEL
    THEN remove_scan_start(self, first)
    ELSE LET elem_node == FreeList_at(self.element_nodes, element_node_idx)
             elem_id == FreeList_at(self.element_ids, elem_node.element_idx)
         IN  IF elem_id = id
             THEN LET relinked ==
                          IF element_node_idx # prev_element_node_idx
                          THEN [self EXCEPT
                                   !.element_nodes.data[prev_element_node_idx + 1].element.next =
                                       elem_node.next]
                          ELSE self
                      erased == [relinked EXCEPT !.element_nodes =
                                    FreeList_erase(relinked.element_nodes, element_node_idx)]
                  IN  [tree |-> erased, element_found |-> TRUE,
                       found_element_idx |-> elem_node.element_idx,
                       new_first |-> IF first = element_node_idx
                                     THEN elem_node.next ELSE first]
             ELSE remove_scan(self, id, first, elem_node.next, element_node_idx)

\* Mutant of remove_leaves_loop: the leaf's element_count is not decremented
\* when the element is unlinked from its list.
RECURSIVE remove_leaves_loop_keeping_count(_, _, _, _)
remove_leaves_loop_keeping_count(self, leaves, id, found_element_idx) ==
    IF Len(leaves) = 0
    THEN [tree |-> self, found_element_idx |-> found_element_idx]
    ELSE LET leaf == Back(leaves)
             leaf_node_data == self.nodes[leaf.index + 1]
             first == leaf_node_data.first_child_or_element
             update(scan) ==
                 remove_leaves_loop_keeping_count(
                     [scan.tree EXCEPT !.nodes[leaf.index + 1] =
                         [first_child_or_element |-> scan.new_first,
                          element_count |-> leaf_node_data.element_count]],
                     PopBack(leaves), id,
                     IF scan.element_found THEN scan.found_element_idx
                     ELSE found_element_idx)
         IN  IF leaf_node_data.element_count = 0
             THEN remove_leaves_loop_keeping_count(self, PopBack(leaves), id, found_element_idx)
             ELSE update(remove_scan(self, id, first, first, first))

\* The loop of remove over the leaves found: the tree and the element handle
\* found so far.
RECURSIVE remove_leaves_loop(_, _, _, _)
remove_leaves_loop(self, leaves, id, found_element_idx) ==
    IF Len(leaves) = 0
    THEN [tree |-> self, found_element_idx |-> found_element_idx]
    ELSE LET leaf == Back(leaves)
             leaf_node_data == self.nodes[leaf.index + 1]
             first == leaf_node_data.first_child_or_element
             update(scan) ==
                 remove_leaves_loop(
                     [scan.tree EXCEPT !.nodes[leaf.index + 1] =
                         [first_child_or_element |-> scan.new_first,
                          element_count |->
                              IF scan.element_found
                              THEN leaf_node_data.element_count - 1
                              ELSE leaf_node_data.element_count]],
                     PopBack(leaves), id,
                     IF scan.element_found THEN scan.found_element_idx
                     ELSE found_element_idx)
         IN  IF leaf_node_data.element_count = 0
             THEN remove_leaves_loop(self, PopBack(leaves), id, found_element_idx)
             ELSE update(remove_scan(self, id, first, first, first))

\* The body of QuadTree::remove: the tree after the call and its result.
remove_body(self, element) ==
    LET leaves == find_leaves_aabb(self, get_root_node_data(self), element.rect, "Mutate")
        finish(r) ==
            IF r.found_element_idx # SENTINEL
            THEN [tree |-> [r.tree EXCEPT
                      !.element_ids = FreeList_erase(r.tree.element_ids, r.found_element_idx),
                      !.element_rects = FreeList_erase(r.tree.element_rects, r.found_element_idx)],
                  ret |-> TRUE]
            ELSE [tree |-> r.tree, ret |-> FALSE]
    IN  finish(remove_leaves_loop(self, leaves, element.id, SENTINEL))

\* Mutant of cleanup_push: a child that is a branch is not put on the stack,
\* so only the root's group is examined.
cleanup_push_nothing(to_process, child_index) == to_process

\* cleanup puts a child that is a branch on the stack of nodes to process.
cleanup_push(to_process, child_index) == Append(to_process, child_index)

\* Mutant of cleanup_children: every leaf is counted as an empty leaf,
\* whether it holds elements or not.
RECURSIVE cleanup_children_counting_all_leaves(_, _, _, _, _)
cleanup_children_counting_all_leaves(self, first_child_index, j, num_empty_leaves, to_process) ==
    IF j = 5
    THEN [num_empty_leaves |-> num_empty_leaves, to_process |-> to_process]
    ELSE LET child_index == first_child_index + j
             child == self.nodes[child_index + 1]
         IN  IF Node_is_leaf(child)
             THEN cleanup_children_counting_all_leaves(
                      self, first_child_index, j + 1, num_empty_leaves + 1, to_process)
             ELSE cleanup_children_counting_all_leaves(
                      self, first_child_index, j + 1, num_empty_leaves,
                      cleanup_push(to_process, child_index))

\* The loop over the five children in cleanup: the number of empty leaves
\* and the work stack with the branch children pushed.
RECURSIVE cleanup_children(_, _, _, _, _)
cleanup_children(self, first_child_index, j, num_empty_leaves, to_process) ==
    IF j = 5
    THEN [num_empty_leaves |-> num_empty_leaves, to_process |-> to_process]
    ELSE LET child_index == first_child_index + j
             child == self.nodes[child_index + 1]
         IN  IF Node_is_empty(child)
             THEN cleanup_children(self, first_child_index, j + 1,
                                   num_empty_leaves + 1, to_process)
             ELSE IF Node_is_branch(child)
             THEN cleanup_children(self, first_child_index, j + 1,
                                   num_empty_leaves,
                                   cleanup_push(to_process, child_index))
             ELSE cleanup_children(self, first_child_index, j + 1,
                                   num_empty_leaves, to_process)

\* The while loop of cleanup.
RECURSIVE cleanup_loop(_, _, _)
cleanup_loop(self, to_process, tree_compacted) ==
    IF Len(to_process) = 0
    THEN [tree |-> self, ret |-> tree_compacted]
    ELSE LET node_index == Back(to_process)
             first_child_index == self.nodes[node_index + 1].first_child_or_element
             fold(c) ==
                 IF c.num_empty_leaves = 5
                 THEN cleanup_loop(
                          [self EXCEPT
                              !.nodes[first_child_index + 1].first_child_or_element =
                                  self.free_node,
                              !.free_node = first_child_index,
                              !.nodes[node_index + 1] =
                                  Node_make_empty_leaf(self.nodes[node_index + 1])],
                          c.to_process, TRUE)
                 ELSE cleanup_loop(self, c.to_process, tree_compacted)
         IN  fold(cleanup_children(self, first_child_index, 0, 0, PopBack(to_process)))

\* Mutant of cleanup: tree_compacted starts out true.
cleanup_compacted_from_start(self) ==
    IF Node_is_leaf(self.nodes[1])
    THEN [tree |-> self, ret |-> FALSE]
    ELSE cleanup_loop(self, <<0>>, TRUE)

\* QuadTree::cleanup: the tree after the call and its result.
cleanup(self) ==
    IF Node_is_leaf(self.nodes[1])
    THEN [tree |-> self, ret |-> FALSE]
    ELSE cleanup_loop(self, <<0>>, FALSE)

\* Mutant of remove: the tree is compacted right after the removal.
remove_then_cleanup(self, element) ==
    LET compact(r) == [tree |-> cleanup(r.tree).tree, ret |-> r.ret]
    IN  compact(remove_body(self, element))

\* QuadTree::remove
remove(self, element) == remove_body(self, element)

\* NodeInfo::from (node_info.rs)
NodeInfo_from(nd, element_count) == [nd |-> nd, element_count |-> element_count]

\* The while loop of visit_leaves, with a visitor that records its calls in
\* call order.
RECURSIVE visit_leaves_loop(_, _, _)
visit_leaves_loop(self, to_process, visited) ==
    IF Len(to_process) = 0
    THEN visited
    ELSE LET nd == Back(to_process)
             rest == PopBack(to_process)
             node == self.nodes[nd.index + 1]
         IN  IF Node_is_leaf(node)
             THEN visit_leaves_loop(self, rest,
                                    Append(visited, NodeInfo_from(nd, node.element_count)))
             ELSE visit_leaves_loop(
                      self,
                      collect_relevant_quadrants(rest, nd, node.first_child_or_element,
                                                 Quadrants_all, "Query"),
                      visited)

\* QuadTree::visit_leaves
visit_leaves(self) == visit_leaves_loop(self, <<get_root_node_data(self)>>, <<>>)

\* QuadTree::count_element_references
RECURSIVE count_element_references_loop(_, _, _)
count_element_references_loop(self, to_process, count) ==
    IF Len(to_process) = 0
    THEN count
    ELSE LET index == Back(to_process)
             node == self.nodes[index + 1]
             fc == node.first_child_or_element
         IN  IF Node_is_branch(node)
             THEN count_element_references_loop(
                      self,
                      PopBack(to_process) \o <<fc, fc + 1, fc + 2, fc + 3, fc + 4>>,
                      count)
             ELSE count_element_references_loop(
                      self, PopBack(to_process), count + node.element_count)

count_element_references(self) == count_element_references_loop(self, <<0>>, 0)

\* Mutant of intersect_leaf: every element of the leaf is reported, without
\* the intersection test against its rectangle.
RECURSIVE intersect_leaf_unfiltered(_, _, _)
intersect_leaf_unfiltered(self, rect, elem_node_idx) ==
    IF elem_node_idx = SENTINEL
    THEN {}
    ELSE LET elem_node == FreeList_at(self.element_nodes, elem_node_idx)
         IN  {FreeList_at(self.element_ids, elem_node.element_idx)}
             \cup intersect_leaf_unfiltered(self, rect, elem_node.next)

\* The ids one leaf contributes to a query: the inner loop of
\* intersect_from_leaves.
RECURSIVE intersect_leaf(_, _, _)
intersect_leaf(self, rect, elem_node_idx) ==
    IF elem_node_idx = SENTINEL
    THEN {}
    ELSE LET elem_node == FreeList_at(self.element_nodes, elem_node_idx)
             elem_rect == FreeList_at(self.element_rects, elem_node.element_idx)
             hit == IF intersects_with(rect, elem_rect)
                    THEN {FreeList_at(self.element_ids, elem_node.element_idx)}
                    ELSE {}
         IN  hit \cup intersect_leaf(self, rect, elem_node.next)

\* The ids of a leaf's element list in the order in which the loop of
\* intersect_from_leaves walks it, head first.
RECURSIVE leaf_element_ids(_, _)
leaf_element_ids(self, elem_node_idx) ==
    IF elem_node_idx = SENTINEL
    THEN <<>>
    ELSE LET elem_node == FreeList_at(self.element_nodes, elem_node_idx)
         IN  <<FreeList_at(self.element_ids, elem_node.element_idx)>>
             \o leaf_element_ids(self, elem_node.next)

\* intersect_from_leaves with the callback that collects the ids into a set.
intersect_from_leaves(self, rect, leaves) ==
    UNION {intersect_leaf(self, rect, self.nodes[leaves[i].index + 1].first_child_or_element) :
              i \in 1..Len(leaves)}

intersect_aabb(self, rect) ==
    intersect_from_leaves(self, rect,
        find_leaves_aabb(self, get_root_node_data(self), rect, "Query"))

intersect_generic(self, element) ==
    intersect_from_leaves(self, element,
        find_leaves_generic(self, get_root_node_data(self), element))

collect_ids(self) == intersect_aabb(self, QuadRect_into_AABB(self.root_rect))

(***************************************************************************)
(* Interval (interval.rs), IntervalTreeEntry (interval_tree_entry.rs) and  *)
(* IntervalTreeNode (interval_tree_node.rs).  An Option is a sequence of   *)
(* length 0 (None) or 1 (Some).                                            *)
(***************************************************************************)
Interval_new(low, high) == [start |-> low, end |-> high]

Interval_overlaps_with(self, other) ==
    (self.start <= other.end) /\ (other.start <= self.end)

IntervalTreeEntry_new(interval, data) == [interval |-> interval, data |-> data]

IntervalTreeNode_new(entry) ==
    [entry |-> entry, max |-> entry.interval.end, left |-> <<>>, right |-> <<>>]

\* IntervalTreeNode::len that leaves out the right subtree.
RECURSIVE IntervalTreeNode_len_without_right(_)
IntervalTreeNode_len_without_right(self) ==
    1 + (IF Len(self.left) = 1 THEN IntervalTreeNode_len_without_right(self.left[1]) ELSE 0)

RECURSIVE IntervalTreeNode_len(_)
IntervalTreeNode_len(self) ==
    1 + (IF Len(self.left) = 1 THEN IntervalTreeNode_len(self.left[1]) ELSE 0)
      + (IF Len(self.right) = 1 THEN IntervalTreeNode_len(self.right[1]) ELSE 0)

\* IntervalTreeNode::insert that sends an equal start to the left subtree.
RECURSIVE IntervalTreeNode_insert_ties_left(_, _)
IntervalTreeNode_insert_ties_left(self, node) ==
    LET low == self.entry.interval.start
        high == self.entry.interval.end
        placed ==
            IF node.entry.interval.start <= low
            THEN [self EXCEPT !.left =
                     IF Len(self.left) = 1
                     THEN <<IntervalTreeNode_insert_ties_left(self.left[1], node)>>
                     ELSE <<node>>]
            ELSE [self EXCEPT !.right =
                     IF Len(self.right) = 1
                     THEN <<IntervalTreeNode_insert_ties_left(self.right[1], node)>>
                     ELSE <<node>>]
    IN  IF placed.max < high THEN [placed EXCEPT !.max = high] ELSE placed

\* IntervalTreeNode::insert: low and high are those of self's own interval.
RECURSIVE IntervalTreeNode_insert(_, _)
IntervalTreeNode_insert(self, node) ==
    LET low == self.entry.interval.start
        high == self.entry.interval.end
        placed ==
            IF node.entry.interval.start < low
            THEN [self EXCEPT !.left =
                     IF Len(self.left) = 1
                     THEN <<IntervalTreeNode_insert(self.left[1], node)>>
                     ELSE <<node>>]
            ELSE [self EXCEPT !.right =
                     IF Len(self.right) = 1
                     THEN <<IntervalTreeNode_insert(self.right[1], node)>>
                     ELSE <<node>>]
    IN  IF placed.max < high THEN [placed EXCEPT !.max = high] ELSE placed

RECURSIVE IntervalTreeNode_overlap_search(_, _)
IntervalTreeNode_overlap_search(self, interval) ==
    IF Interval_overlaps_with(self.entry.interval, interval)
    THEN <<self.entry.interval>>
    ELSE IF Len(self.left) = 1 /\ self.left[1].max >= interval.start
    THEN IntervalTreeNode_overlap_search(self.left[1], interval)
    ELSE IF Len(self.right) = 1
    THEN IntervalTreeNode_overlap_search(self.right[1], interval)
    ELSE <<>>

(***************************************************************************)
(* InorderIterator (inorder_iterator.rs).                                  *)
(***************************************************************************)
State_Initial == [tag |-> "Initial", iter |-> <<>>]
State_EmitLeft(it) == [tag |-> "EmitLeft", iter |-> <<it>>]
State_EmitSelf == [tag |-> "EmitSelf", iter |-> <<>>]
State_EmitRight(it) == [tag |-> "EmitRight", iter |-> <<it>>]
State_Done == [tag |-> "Done", iter |-> <<>>]

InorderIterator_new(node) == [root |-> <<node>>, current_state |-> State_Initial]
InorderIterator_empty == [root |-> <<>>, current_state |-> State_Done]

\* IntervalTreeNode::iter_inorder
IntervalTreeNode_iter_inorder(self) == InorderIterator_new(self)

\* Mutant of InorderIterator::next: a call in the Done state returns None
\* and puts the iterator back into the Initial state.
RECURSIVE InorderIterator_next_restarting(_)
InorderIterator_next_restarting(self) ==
    IF Len(self.root) = 0
    THEN [iter |-> self, item |-> <<>>]
    ELSE LET node == self.root[1]
             state == self.current_state
             goto(st) == [self EXCEPT !.current_state = st]
             emit_left(value) ==
                 IF Len(value.item) = 1
                 THEN [iter |-> goto(State_EmitLeft(value.iter)), item |-> value.item]
                 ELSE InorderIterator_next_restarting(goto(State_EmitSelf))
             emit_right(value) ==
                 IF Len(value.item) = 1
                 THEN [iter |-> goto(State_EmitRight(value.iter)), item |-> value.item]
                 ELSE InorderIterator_next_restarting(goto(State_Done))
         IN  CASE state.tag = "Initial" ->
                      IF Len(node.left) = 1
                      THEN InorderIterator_next_restarting(
                               goto(State_EmitLeft(IntervalTreeNode_iter_inorder(node.left[1]))))
                      ELSE InorderIterator_next_restarting(goto(State_EmitSelf))
               [] state.tag = "EmitLeft" ->
                      emit_left(InorderIterator_next_restarting(state.iter[1]))
               [] state.tag = "EmitSelf" ->
                      [iter |-> IF Len(node.right) = 1
                                THEN goto(State_EmitRight(
                                         IntervalTreeNode_iter_inorder(node.right[1])))
                                ELSE goto(State_Done),
                       item |-> <<node.entry>>]
               [] state.tag = "EmitRight" ->
                      emit_right(InorderIterator_next_restarting(state.iter[1]))
               [] state.tag = "Done" ->
                      [iter |-> goto(State_Initial), item |-> <<>>]

\* InorderIterator::next: the iterator after the call and the Option it
\* returns.  Each turn of the loop is one unfolding.
RECURSIVE InorderIterator_next(_)
InorderIterator_next(self) ==
    IF Len(self.root) = 0
    THEN [iter |-> self, item |-> <<>>]
    ELSE LET node == self.root[1]
             state == self.current_state
             goto(st) == [self EXCEPT !.current_state = st]
             emit_left(value) ==
                 IF Len(value.item) = 1
                 THEN [iter |-> goto(State_EmitLeft(value.iter)), item |-> value.item]
                 ELSE InorderIterator_next(goto(State_EmitSelf))
             emit_right(value) ==
                 IF Len(value.item) = 1
                 THEN [iter |-> goto(State_EmitRight(value.iter)), item |-> value.item]
                 ELSE InorderIterator_next(goto(State_Done))
         IN  CASE state.tag = "Initial" ->
                      IF Len(node.left) = 1
                      THEN InorderIterator_next(
                               goto(State_EmitLeft(IntervalTreeNode_iter_inorder(node.left[1]))))
                      ELSE InorderIterator_next(goto(State_EmitSelf))
               [] state.tag = "EmitLeft" ->
                      emit_left(InorderIterator_next(state.iter[1]))
               [] state.tag = "EmitSelf" ->
                      [iter |-> IF Len(node.right) = 1
                                THEN goto(State_EmitRight(
                                         IntervalTreeNode_iter_inorder(node.right[1])))
                                ELSE goto(State_Done),
                       item |-> <<node.entry>>]
               [] state.tag = "EmitRight" ->
                      emit_right(InorderIterator_next(state.iter[1]))
               [] state.tag = "Done" ->
                      [iter |-> self, item |-> <<>>]

\* InorderIterator::size_hint that reports an exact size without a root too.
InorderIterator_size_hint_exact(self) ==
    LET size == IF Len(self.root) = 0 THEN 0 ELSE IntervalTreeNode_len(self.root[1])
    IN  [lo |-> size, hi |-> <<size>>]

\* InorderIterator::size_hint: the lower bound and the Option of the upper.
InorderIterator_size_hint(self) ==
    IF Len(self.root) = 0
    THEN [lo |-> 0, hi |-> <<>>]
    ELSE LET size == IntervalTreeNode_len(self.root[1])
         IN  [lo |-> size, hi |-> <<size>>]

InorderIterator_count(self) ==
    IF Len(self.root) = 1 THEN IntervalTreeNode_len(self.root[1]) ELSE 0

(***************************************************************************)
(* IntervalTree (interval_tree.rs): the value is its root, an Option.      *)
(***************************************************************************)
\* InorderIterator::last: the Option of the entry of the rightmost node.
RECURSIVE InorderIterator_last_loop(_)
InorderIterator_last_loop(token) ==
    IF Len(token.right) = 1
    THEN InorderIterator_last_loop(token.right[1])
    ELSE token

InorderIterator_last(self) ==
    IF Len(self.root) = 0
    THEN <<>>
    ELSE <<InorderIterator_last_loop(self.root[1]).entry>>

\* Mutant of inorder: the node is passed to the callback before its left
\* subtree is walked.
RECURSIVE inorder_node_first(_)
inorder_node_first(node) ==
    <<node.entry>>
    \o (IF Len(node.left) = 1 THEN inorder_node_first(node.left[1]) ELSE <<>>)
    \o (IF Len(node.right) = 1 THEN inorder_node_first(node.right[1]) ELSE <<>>)

\* The functions inorder and inorder_child of InorderIterator::for_each, with
\* a callback that appends the entry it is given.
RECURSIVE inorder(_)
inorder(node) ==
    (IF Len(node.left) = 1 THEN inorder(node.left[1]) ELSE <<>>)
    \o <<node.entry>>
    \o (IF Len(node.right) = 1 THEN inorder(node.right[1]) ELSE <<>>)

\* InorderIterator::for_each: the entries passed to the callback, in call
\* order.
InorderIterator_for_each(self) ==
    IF Len(self.root) = 1 THEN inorder(self.root[1]) ELSE <<>>

\* The helper collect_inorder of the tests of inorder_iterator.rs: the
\* contents of out after the call.
RECURSIVE collect_inorder(_, _)
collect_inorder(node, out) ==
    LET left == IF Len(node.left) = 1 THEN collect_inorder(node.left[1], out) ELSE out
        pushed == Append(left, node.entry)
    IN  IF Len(node.right) = 1 THEN collect_inorder(node.right[1], pushed) ELSE pushed

IntervalTree_default == <<>>

IntervalTree_insert(self, entry) ==
    LET node == IntervalTreeNode_new(entry)
    IN  IF Len(self) = 0
        THEN <<node>>
        ELSE <<IntervalTreeNode_insert(self[1], node)>>

IntervalTree_len(self) == IF Len(self) = 1 THEN IntervalTreeNode_len(self[1]) ELSE 0

IntervalTree_is_empty(self) == IntervalTree_len(self) = 0

IntervalTree_overlap_search(self, interval) ==
    IF Len(self) = 1
    THEN IntervalTreeNode_overlap_search(self[1], interval)
    ELSE <<>>

IntervalTree_iter_inorder(self) ==
    IF Len(self) = 1 THEN InorderIterator_new(self[1]) ELSE InorderIterator_empty

(***************************************************************************)
(* The state machine: one QuadTree value and the calls made on it.         *)
(***************************************************************************)
VARIABLES
    element_ids,         \* FreeList<ElementId>
    element_rects,       \* FreeList<AABB>
    element_nodes,       \* FreeList<QuadTreeElementNode>
    nodes,               \* Vec<Node>
    root_rect,           \* QuadRect, fixed at construction
    free_node,           \* head of the chain of freed five-node groups
    max_num_elements,    \* fixed at construction
    smallest_cell_size,  \* fixed at construction
    max_depth,           \* fixed at construction
    live,                \* history: elements inserted with Ok and not removed with true
    last,                \* history: the last call, the id it was given and its result
    phase,               \* history: position in the insert / remove / cleanup scenario
    pending,             \* history: inserted elements no remove call was made for yet
    insertion_order,     \* history: the ids in the tree, oldest insert first
    self_rect,           \* the AABB intersects_with is called on
    other_rect,          \* the AABB intersects_with is called with
    result,              \* what intersects_with returned, "none" before the call
    list,                \* a FreeList used on its own
    handles,             \* history: the value stored under each live handle of list
    erased,              \* history: the erased handles not handed out again, oldest first
    misused,             \* history: erase was called on a handle that was not live
    fl_last,             \* history: the last FreeList call and what it returned
    root,                \* IntervalTree::root, an Option
    inserted,            \* history: the entries inserted, in order
    iter,                \* an InorderIterator over the tree, an Option
    yielded,             \* history: the entries iter has returned so far
    it_last              \* history: the last IntervalTree call and what it returned

vars == <<element_ids, element_rects, element_nodes, nodes, root_rect, free_node,
          max_num_elements, smallest_cell_size, max_depth,
          live, last, phase, pending, insertion_order, self_rect, other_rect, result,
          list, handles, erased, misused, fl_last,
          root, inserted, iter, yielded, it_last>>

\* The variables the tree operations leave alone.
aabbVars == <<self_rect, other_rect, result>>
freeListVars == <<list, handles, erased, misused, fl_last>>
intervalVars == <<root, inserted, iter, yielded, it_last>>

\* No call of intersects_with is modelled on its own.
AabbIdle ==
    /\ self_rect = AABB_new(0, 0, 0, 0)
    /\ other_rect = AABB_new(0, 0, 0, 0)
    /\ result = "none"

\* No FreeList is used on its own.
FreeListIdle ==
    /\ list = FreeList_default
    /\ handles = <<>>
    /\ erased = <<>>
    /\ misused = FALSE
    /\ fl_last = [op |-> "default", index |-> SENTINEL, ret |-> "none"]

\* No IntervalTree is used.
IntervalIdle ==
    /\ root = IntervalTree_default
    /\ inserted = <<>>
    /\ iter = <<>>
    /\ yielded = <<>>
    /\ it_last = [op |-> "default", q |-> Interval_new(0, 0), ret |-> <<>>]

\* The QuadTree value held in the variables.
Self ==
    [element_ids |-> element_ids, element_rects |-> element_rects,
     element_nodes |-> element_nodes, nodes |-> nodes, root_rect |-> root_rect,
     free_node |-> free_node, max_depth |-> max_depth,
     max_num_elements |-> max_num_elements,
     smallest_cell_size |-> smallest_cell_size]

\* The QuadTree value held in the variables after a step.
SelfNext ==
    [element_ids |-> element_ids', element_rects |-> element_rects',
     element_nodes |-> element_nodes', nodes |-> nodes', root_rect |-> root_rect',
     free_node |-> free_node', max_depth |-> max_depth',
     max_num_elements |-> max_num_elements',
     smallest_cell_size |-> smallest_cell_size']

\* The variables take the fields of tree value t.
Becomes(t) ==
    /\ element_ids' = t.element_ids
    /\ element_rects' = t.element_rects
    /\ element_nodes' = t.element_nodes
    /\ nodes' = t.nodes
    /\ root_rect' = t.root_rect
    /\ free_node' = t.free_node
    /\ max_depth' = t.max_depth
    /\ max_num_elements' = t.max_num_elements
    /\ smallest_cell_size' = t.smallest_cell_size

\* The smallest cell sizes the model constructs trees with: with 1 every
\* cell above max_depth may be split, with 4 the root cell (half-extent 4)
\* is the only one that is not smaller than the smallest cell size.
SmallestCellSizes == {1, 4}

\* The trees the model constructs: root (-4,-4)..(4,4).
NewTrees ==
    { QuadTree_new([l |-> -4, t |-> -4, hx |-> 8, hy |-> 8], MaxDepth, n, c) :
          n \in 1..MaxLeafElements, c \in SmallestCellSizes }

\* The rectangles offered to insert and remove.  Against the root
\* (-4,-4)..(4,4), centre (0,0): a straddler of the top-right quadrant, a
\* cell of the bottom-left quadrant, a straddler of the root, a rectangle that
\* touches the root from outside with its midpoint on the root's edge, a
\* rectangle far outside of the root, and a horizontal line of the top-right
\* quadrant that lies on the quadrant's bottom edge.
InputRects ==
    { AABB_new(1, -3, 3, -1),
      AABB_new(1, 0, 3, 0),
      AABB_new(-3, 1, -2, 2),
      AABB_new(-1, -1, 1, 1),
      AABB_new(4, 0, 5, 1),
      AABB_new(5, 5, 7, 7) }

Ids == 1..MaxId
Elements == [id : Ids, rect : InputRects]
LiveIds == {e.id : e \in live}
BoolStr(b) == IF b THEN "true" ELSE "false"

Init ==
    /\ \E t \in NewTrees : 
           /\ element_ids = t.element_ids
           /\ element_rects = t.element_rects
           /\ element_nodes = t.element_nodes
           /\ nodes = t.nodes
           /\ root_rect = t.root_rect
           /\ free_node = t.free_node
           /\ max_depth = t.max_depth
           /\ max_num_elements = t.max_num_elements
           /\ smallest_cell_size = t.smallest_cell_size
    /\ live = {}
    /\ last = [op |-> "new", id |-> 0, ret |-> "none"]
    /\ phase = "free"
    /\ pending = {}
    /\ insertion_order = <<>>
    /\ AabbIdle
    /\ FreeListIdle
    /\ IntervalIdle

\* tree.insert(e) for an element whose id is not in the tree.
Insert(e) ==
    /\ e.id \notin LiveIds
    /\ FreeList_capacity(element_ids) < MaxSlots
    /\ FreeList_capacity(element_nodes) < MaxSlots
    /\ \E r \in {insert(Self, e)} :
           /\ Becomes(r.tree)
           /\ live' = IF r.ret = "Ok" THEN live \cup {e} ELSE live
           /\ last' = [op |-> "insert", id |-> e.id, ret |-> r.ret]
    /\ UNCHANGED <<phase, pending, insertion_order, aabbVars, freeListVars, intervalVars>>

\* tree.remove(e) for a live element (with the rectangle it was inserted
\* with) or for an id that is not in the tree.
Remove(e) ==
    /\ e \in live \/ e.id \notin LiveIds
    /\ \E r \in {remove(Self, e)} :
           /\ Becomes(r.tree)
           /\ live' = IF r.ret THEN live \ {e} ELSE live
           /\ last' = [op |-> "remove", id |-> e.id, ret |-> BoolStr(r.ret)]
    /\ UNCHANGED <<phase, pending, insertion_order, aabbVars, freeListVars, intervalVars>>

\* tree.cleanup()
Cleanup ==
    /\ \E r \in {cleanup(Self)} :
           /\ Becomes(r.tree)
           /\ last' = [op |-> "cleanup", id |-> 0, ret |-> BoolStr(r.ret)]
    /\ UNCHANGED <<live, phase, pending, insertion_order, aabbVars, freeListVars, intervalVars>>

Next ==
    \/ \E e \in Elements : Insert(e)
    \/ \E e \in Elements : Remove(e)
    \/ Cleanup

Spec == Init /\ [][Next]_vars

(***************************************************************************)
(* The operations of Spec on trees of every maximum depth from 0, with     *)
(* which the root may never split, to MaxDepth.                            *)
(***************************************************************************)
DepthTrees ==
    { QuadTree_new([l |-> -4, t |-> -4, hx |-> 8, hy |-> 8], d, n, c) :
          d \in 0..MaxDepth, n \in 1..MaxLeafElements, c \in SmallestCellSizes }

InitDepth ==
    /\ \E t \in DepthTrees :
           /\ element_ids = t.element_ids
           /\ element_rects = t.element_rects
           /\ element_nodes = t.element_nodes
           /\ nodes = t.nodes
           /\ root_rect = t.root_rect
           /\ free_node = t.free_node
           /\ max_depth = t.max_depth
           /\ max_num_elements = t.max_num_elements
           /\ smallest_cell_size = t.smallest_cell_size
    /\ live = {}
    /\ last = [op |-> "new", id |-> 0, ret |-> "none"]
    /\ phase = "free"
    /\ pending = {}
    /\ insertion_order = <<>>
    /\ AabbIdle
    /\ FreeListIdle
    /\ IntervalIdle

NextDepth ==
    \/ \E e \in Elements : Insert(e)
    \/ \E e \in Elements : Remove(e)
    \/ Cleanup

SpecDepth == InitDepth /\ [][NextDepth]_vars

(***************************************************************************)
(* The scenario of inserts, then one remove call per inserted element,     *)
(* then cleanup calls until one returns false.                             *)
(***************************************************************************)
InitDrain ==
    /\ \E t \in NewTrees : 
           /\ element_ids = t.element_ids
           /\ element_rects = t.element_rects
           /\ element_nodes = t.element_nodes
           /\ nodes = t.nodes
           /\ root_rect = t.root_rect
           /\ free_node = t.free_node
           /\ max_depth = t.max_depth
           /\ max_num_elements = t.max_num_elements
           /\ smallest_cell_size = t.smallest_cell_size
    /\ live = {}
    /\ last = [op |-> "new", id |-> 0, ret |-> "none"]
    /\ phase = "insert"
    /\ pending = {}
    /\ insertion_order = <<>>
    /\ AabbIdle
    /\ FreeListIdle
    /\ IntervalIdle

DrainInsert(e) ==
    /\ phase = "insert"
    /\ e.id \notin LiveIds
    /\ FreeList_capacity(element_ids) < MaxSlots
    /\ FreeList_capacity(element_nodes) < MaxSlots
    /\ \E r \in {insert(Self, e)} :
           /\ Becomes(r.tree)
           /\ live' = IF r.ret = "Ok" THEN live \cup {e} ELSE live
           /\ pending' = IF r.ret = "Ok" THEN pending \cup {e} ELSE pending
           /\ last' = [op |-> "insert", id |-> e.id, ret |-> r.ret]
    /\ UNCHANGED <<phase, insertion_order, aabbVars, freeListVars, intervalVars>>

DrainRemove(e) ==
    /\ phase \in {"insert", "remove"}
    /\ e \in pending
    /\ \E r \in {remove(Self, e)} :
           /\ Becomes(r.tree)
           /\ live' = IF r.ret THEN live \ {e} ELSE live
           /\ last' = [op |-> "remove", id |-> e.id, ret |-> BoolStr(r.ret)]
    /\ pending' = pending \ {e}
    /\ phase' = "remove"
    /\ UNCHANGED <<insertion_order, aabbVars, freeListVars, intervalVars>>

DrainCleanup ==
    /\ phase \in {"insert", "remove", "cleanup"}
    /\ pending = {}
    /\ \E r \in {cleanup(Self)} :
           /\ Becomes(r.tree)
           /\ last' = [op |-> "cleanup", id |-> 0, ret |-> BoolStr(r.ret)]
           /\ phase' = IF r.ret THEN "cleanup" ELSE "done"
    /\ UNCHANGED <<live, pending, insertion_order, aabbVars, freeListVars, intervalVars>>

NextDrain ==
    \/ \E e \in Elements : DrainInsert(e)
    \/ \E e \in Elements : DrainRemove(e)
    \/ DrainCleanup

SpecDrain == InitDrain /\ [][NextDrain]_vars

(***************************************************************************)
(* The six-element seed tree of build_test_tree, and removes and cleanup   *)
(* calls on it.                                                            *)
(***************************************************************************)
\* The elements build_test_tree inserts, in its order.
SeedElements ==
    << [id |-> 1000, rect |-> AABB_new(-15, -15, -5, -5)],
       [id |-> 1001, rect |-> AABB_new(-20, -20, -18, -18)],
       [id |-> 2000, rect |-> AABB_new(5, -15, 15, -5)],
       [id |-> 3000, rect |-> AABB_new(-15, 5, -5, 15)],
       [id |-> 4000, rect |-> AABB_new(5, 5, 15, 15)],
       [id |-> 5000, rect |-> AABB_new(-5, -5, 5, 5)] >>

SeedSet == {SeedElements[i] : i \in 1..Len(SeedElements)}

\* The tree after the first n inserts of build_test_tree.
RECURSIVE build_test_tree_upto(_)
build_test_tree_upto(n) ==
    IF n = 0
    THEN QuadTree_new([l |-> -20, t |-> -20, hx |-> 40, hy |-> 40], 1, 1, 1)
    ELSE insert(build_test_tree_upto(n - 1), SeedElements[n]).tree

build_test_tree == build_test_tree_upto(Len(SeedElements))

InitSeed ==
    /\ \E t \in {build_test_tree} :
           /\ element_ids = t.element_ids
           /\ element_rects = t.element_rects
           /\ element_nodes = t.element_nodes
           /\ nodes = t.nodes
           /\ root_rect = t.root_rect
           /\ free_node = t.free_node
           /\ max_depth = t.max_depth
           /\ max_num_elements = t.max_num_elements
           /\ smallest_cell_size = t.smallest_cell_size
    /\ live = SeedSet
    /\ last = [op |-> "new", id |-> 0, ret |-> "none"]
    /\ phase = "seed"
    /\ pending = {}
    /\ insertion_order = <<>>
    /\ AabbIdle
    /\ FreeListIdle
    /\ IntervalIdle

\* tree.remove(e) for an element of the seed, in the tree or not.
SeedRemove(e) ==
    /\ \E r \in {remove(Self, e)} :
           /\ Becomes(r.tree)
           /\ live' = IF r.ret THEN live \ {e} ELSE live
           /\ last' = [op |-> "remove", id |-> e.id, ret |-> BoolStr(r.ret)]
    /\ UNCHANGED <<phase, pending, insertion_order, aabbVars, freeListVars, intervalVars>>

SeedCleanup ==
    /\ \E r \in {cleanup(Self)} :
           /\ Becomes(r.tree)
           /\ last' = [op |-> "cleanup", id |-> 0, ret |-> BoolStr(r.ret)]
    /\ UNCHANGED <<live, phase, pending, insertion_order, aabbVars, freeListVars, intervalVars>>

NextSeed ==
    \/ \E e \in SeedSet : SeedRemove(e)
    \/ SeedCleanup

SpecSeed == InitSeed /\ [][NextSeed]_vars

(***************************************************************************)
(* Trees whose leaves hold one element more than those of Spec, with the   *)
(* order of the inserts recorded.                                          *)
(***************************************************************************)
OrderIds == 1..(MaxId + 1)
OrderRects == {AABB_new(1, -3, 3, -1), AABB_new(-3, -3, -2, -2), AABB_new(-1, -1, 1, 1)}
OrderElements == [id : OrderIds, rect : OrderRects]

InitOrder ==
    /\ \E t \in {QuadTree_new([l |-> -4, t |-> -4, hx |-> 8, hy |-> 8],
                               MaxDepth, MaxLeafElements + 1, 1)} :
           /\ element_ids = t.element_ids
           /\ element_rects = t.element_rects
           /\ element_nodes = t.element_nodes
           /\ nodes = t.nodes
           /\ root_rect = t.root_rect
           /\ free_node = t.free_node
           /\ max_depth = t.max_depth
           /\ max_num_elements = t.max_num_elements
           /\ smallest_cell_size = t.smallest_cell_size
    /\ live = {}
    /\ last = [op |-> "new", id |-> 0, ret |-> "none"]
    /\ phase = "order"
    /\ pending = {}
    /\ insertion_order = <<>>
    /\ AabbIdle
    /\ FreeListIdle
    /\ IntervalIdle

\* tree.insert(e) for an element whose id is not in the tree.
OrderInsert(e) ==
    /\ e.id \notin LiveIds
    /\ FreeList_capacity(element_ids) <= MaxSlots
    /\ FreeList_capacity(element_nodes) <= MaxSlots
    /\ \E r \in {insert(Self, e)} :
           /\ Becomes(r.tree)
           /\ live' = IF r.ret = "Ok" THEN live \cup {e} ELSE live
           /\ insertion_order' = IF r.ret = "Ok"
                                  THEN Append(insertion_order, e.id)
                                  ELSE insertion_order
           /\ last' = [op |-> "insert", id |-> e.id, ret |-> r.ret]
    /\ UNCHANGED <<phase, pending, aabbVars, freeListVars, intervalVars>>

\* tree.remove(e) for an element of the tree.
OrderRemove(e) ==
    /\ e \in live
    /\ \E r \in {remove(Self, e)} :
           /\ Becomes(r.tree)
           /\ live' = IF r.ret THEN live \ {e} ELSE live
           /\ insertion_order' = IF r.ret
                                  THEN SelectSeq(insertion_order, LAMBDA i : i # e.id)
                                  ELSE insertion_order
           /\ last' = [op |-> "remove", id |-> e.id, ret |-> BoolStr(r.ret)]
    /\ UNCHANGED <<phase, pending, aabbVars, freeListVars, intervalVars>>

NextOrder ==
    \/ \E e \in OrderElements : OrderInsert(e)
    \/ \E e \in OrderElements : OrderRemove(e)

SpecOrder == InitOrder /\ [][NextOrder]_vars

(***************************************************************************)
(* AABB::intersects_with on its own: every pair of rectangles with         *)
(* coordinates in 0..MaxCoord, inverted ones (tl > br) included.           *)
(***************************************************************************)
Coords == 0..MaxCoord
Rects == {AABB_new(x1, y1, x2, y2) : x1 \in Coords, y1 \in Coords, x2 \in Coords, y2 \in Coords}

InitAABB ==
    /\ \E t \in {QuadTree_new([l |-> -4, t |-> -4, hx |-> 8, hy |-> 8], MaxDepth, 1, 1)} :
           /\ element_ids = t.element_ids
           /\ element_rects = t.element_rects
           /\ element_nodes = t.element_nodes
           /\ nodes = t.nodes
           /\ root_rect = t.root_rect
           /\ free_node = t.free_node
           /\ max_depth = t.max_depth
           /\ max_num_elements = t.max_num_elements
           /\ smallest_cell_size = t.smallest_cell_size
    /\ live = {}
    /\ last = [op |-> "new", id |-> 0, ret |-> "none"]
    /\ phase = "aabb"
    /\ pending = {}
    /\ insertion_order = <<>>
    /\ self_rect \in Rects
    /\ other_rect \in Rects
    /\ result = "none"
    /\ FreeListIdle
    /\ IntervalIdle

\* self_rect.intersects_with(&other_rect)
IntersectsWith ==
    /\ phase = "aabb"
    /\ result = "none"
    /\ result' = BoolStr(intersects_with(self_rect, other_rect))
    /\ UNCHANGED <<element_ids, element_rects, element_nodes, nodes, root_rect, free_node>>
    /\ UNCHANGED <<max_num_elements, smallest_cell_size, max_depth>>
    /\ UNCHANGED <<live, last, phase, pending, insertion_order, self_rect, other_rect>>
    /\ UNCHANGED <<freeListVars, intervalVars>>

NextAABB == IntersectsWith

SpecAABB == InitAABB /\ [][NextAABB]_vars

(***************************************************************************)
(* A quadtree that is constructed and never used: the state of the tree    *)
(* variables while another structure of the crate is exercised.            *)
(***************************************************************************)
quadTreeVars == <<element_ids, element_rects, element_nodes, nodes, root_rect, free_node, max_num_elements, smallest_cell_size, max_depth, live, last, pending, insertion_order>>

QuadTreeIdle ==
    /\ \E t \in {QuadTree_new([l |-> -4, t |-> -4, hx |-> 8, hy |-> 8], MaxDepth, 1, 1)} :
           /\ element_ids = t.element_ids
           /\ element_rects = t.element_rects
           /\ element_nodes = t.element_nodes
           /\ nodes = t.nodes
           /\ root_rect = t.root_rect
           /\ free_node = t.free_node
           /\ max_depth = t.max_depth
           /\ max_num_elements = t.max_num_elements
           /\ smallest_cell_size = t.smallest_cell_size
    /\ live = {}
    /\ last = [op |-> "new", id |-> 0, ret |-> "none"]
    /\ pending = {}
    /\ insertion_order = <<>>

(***************************************************************************)
(* FreeList on its own: inserts of values, erases of live handles and      *)
(* erases of handles that were erased before.                              *)
(***************************************************************************)
Values == 1..MaxId

\* The handles a list of at most MaxSlots + 1 cells hands out.
Handles == 0..MaxSlots

\* The handles of list that hold a value.
LiveHandles == DOMAIN handles

\* The erased handles no insert has handed out again.
ErasedHandles == {erased[k] : k \in 1..Len(erased)}

InitFreeList ==
    /\ QuadTreeIdle
    /\ phase = "free_list"
    /\ AabbIdle
    /\ FreeListIdle
    /\ IntervalIdle

\* list.insert(v)
FLInsert(v) ==
    /\ phase = "free_list"
    /\ FreeList_capacity(list) <= MaxSlots
    /\ \E r \in {FreeList_insert(list, v)} :
           /\ list' = r.list
           /\ handles' = [h \in LiveHandles \cup {r.index} |->
                              IF h = r.index THEN v ELSE handles[h]]
           /\ erased' = SelectSeq(erased, LAMBDA h : h # r.index)
           /\ fl_last' = [op |-> "insert", index |-> r.index,
                          ret |-> IF r.index < FreeList_capacity(list)
                                  THEN "reused" ELSE "appended"]
    /\ UNCHANGED <<misused, phase, quadTreeVars, aabbVars, intervalVars>>

\* list.erase(n) for a live handle n
FLErase(n) ==
    /\ phase = "free_list"
    /\ n \in LiveHandles
    /\ \E r \in {FreeList_erase_debug(list, n)} :
           /\ list' = r.list
           /\ handles' = IF r.ret = "done"
                          THEN [h \in LiveHandles \ {n} |-> handles[h]]
                          ELSE handles
           /\ erased' = IF r.ret = "done" THEN Append(erased, n) ELSE erased
           /\ fl_last' = [op |-> "erase", index |-> n, ret |-> r.ret]
    /\ UNCHANGED <<misused, phase, quadTreeVars, aabbVars, intervalVars>>

\* list.erase(n) for a handle n that was erased and not handed out since
FLEraseAgain(n) ==
    /\ phase = "free_list"
    /\ n \in ErasedHandles
    /\ \E r \in {FreeList_erase_debug(list, n)} :
           /\ list' = r.list
           /\ fl_last' = [op |-> "erase_again", index |-> n, ret |-> r.ret]
    /\ misused' = TRUE
    /\ UNCHANGED <<handles, erased, phase, quadTreeVars, aabbVars, intervalVars>>

NextFreeList ==
    \/ \E v \in Values : FLInsert(v)
    \/ \E n \in Handles : FLErase(n)
    \/ \E n \in Handles : FLEraseAgain(n)

SpecFreeList == InitFreeList /\ [][NextFreeList]_vars

(***************************************************************************)
(* IntervalTree: inserts, overlap searches, and in-order iterators that    *)
(* are created, stepped and dropped.  An iterator borrows the tree, so no  *)
(* insert is made while one exists.                                        *)
(***************************************************************************)
Intervals == {i \in {Interval_new(a, b) : a \in Coords, b \in Coords} : i.start <= i.end}
NoInterval == Interval_new(0, 0)

InitInterval ==
    /\ QuadTreeIdle
    /\ phase = "interval"
    /\ AabbIdle
    /\ FreeListIdle
    /\ IntervalIdle

\* tree.insert((i, data)): the data is the number of the insert.
ITInsert(i) ==
    /\ phase = "interval"
    /\ Len(iter) = 0
    /\ Len(inserted) < MaxEntries
    /\ \E entry \in {IntervalTreeEntry_new(i, Len(inserted) + 1)} :
           /\ root' = IntervalTree_insert(root, entry)
           /\ inserted' = Append(inserted, entry)
    /\ it_last' = [op |-> "insert", q |-> NoInterval, ret |-> <<>>]
    /\ UNCHANGED <<iter, yielded, phase, quadTreeVars, aabbVars, freeListVars>>

\* tree.overlap_search(q)
ITOverlapSearch(q) ==
    /\ phase = "interval"
    /\ Len(iter) = 0
    /\ it_last' = [op |-> "overlap_search", q |-> q,
                   ret |-> IntervalTree_overlap_search(root, q)]
    /\ UNCHANGED <<root, inserted, iter, yielded, phase, quadTreeVars, aabbVars, freeListVars>>

\* let iter = tree.iter_inorder()
ITIterInorder ==
    /\ phase = "interval"
    /\ Len(iter) = 0
    /\ iter' = <<IntervalTree_iter_inorder(root)>>
    /\ yielded' = <<>>
    /\ it_last' = [op |-> "iter_inorder", q |-> NoInterval, ret |-> <<>>]
    /\ UNCHANGED <<root, inserted, phase, quadTreeVars, aabbVars, freeListVars>>

\* iter.next()
ITNext ==
    /\ phase = "interval"
    /\ Len(iter) = 1
    /\ \E r \in {InorderIterator_next(iter[1])} :
           /\ iter' = <<r.iter>>
           /\ yielded' = yielded \o r.item
           /\ it_last' = [op |-> "next", q |-> NoInterval, ret |-> r.item]
    /\ UNCHANGED <<root, inserted, phase, quadTreeVars, aabbVars, freeListVars>>

\* drop(iter)
ITDrop ==
    /\ phase = "interval"
    /\ Len(iter) = 1
    /\ iter' = <<>>
    /\ yielded' = <<>>
    /\ it_last' = [op |-> "drop", q |-> NoInterval, ret |-> <<>>]
    /\ UNCHANGED <<root, inserted, phase, quadTreeVars, aabbVars, freeListVars>>

NextInterval ==
    \/ \E i \in Intervals : ITInsert(i)
    \/ \E q \in Intervals : ITOverlapSearch(q)
    \/ ITIterInorder
    \/ ITNext
    \/ ITDrop

SpecInterval == InitInterval /\ [][NextInterval]_vars

(***************************************************************************)
(* Definitions used to state the properties.                               *)
(***************************************************************************)
\* The rectangles queries are made with: the root rectangle, its top-left
\* quadrant, the bottom-left input rectangle, a point at the centre, a
\* vertical line through the right half and a rectangle of the bottom-right
\* quadrant whose top edge lies on the quadrant's top edge.
QueryRects ==
    { QuadRect_into_AABB(root_rect), AABB_new(-4, -4, 0, 0),
      AABB_new(-3, 1, -2, 2), AABB_new(0, 0, 0, 0), AABB_new(2, -4, 2, 4),
      AABB_new(1, 0, 3, 2) }

\* The rectangle the live element with this id was inserted with.
RectOf(id) == (CHOOSE e \in live : e.id = id).rect

\* rect lies entirely inside the root rectangle.
InsideRoot(rect) ==
    /\ root_rect.l <= rect.tlx
    /\ rect.brx <= root_rect.l + root_rect.hx
    /\ root_rect.t <= rect.tly
    /\ rect.bry <= root_rect.t + root_rect.hy

\* The fields of the tree that insert, remove and cleanup write.
treeVars == <<element_ids, element_rects, element_nodes, nodes, free_node>>

\* The heads of the five-node groups on the chain that starts at index.
RECURSIVE FreeGroups(_, _)
FreeGroups(ns, index) ==
    IF index = SENTINEL
    THEN {}
    ELSE {index} \cup FreeGroups(ns, ns[index + 1].first_child_or_element)

\* The heads of all five-node groups of the node vector.
AllGroups(ns) == {i \in 1..(Len(ns) - 1) : i % 5 = 1}

\* The indices of the nodes reachable from the node at index through the
\* child groups of branches.
RECURSIVE ReachableNodes(_, _)
ReachableNodes(ns, index) ==
    IF Node_is_branch(ns[index + 1])
    THEN {index} \cup UNION { ReachableNodes(ns, ns[index + 1].first_child_or_element + j) :
                                  j \in 0..4 }
    ELSE {index}

\* The reachable branches whose five children are all empty leaves.
FoldableBranches(ns) ==
    { i \in ReachableNodes(ns, 0) :
          /\ Node_is_branch(ns[i + 1])
          /\ \A j \in 0..4 : Node_is_empty(ns[ns[i + 1].first_child_or_element + j + 1]) }

\* The node data of every node reachable from nd, as the query-mode descent
\* of visit_leaves computes it: a quadrant child is one level deeper than its
\* parent, the straddler bucket shares its parent's cell and depth and cannot
\* split.
RECURSIVE visit_nodes(_, _)
visit_nodes(self, nd) ==
    IF Node_is_leaf(self.nodes[nd.index + 1])
    THEN {nd}
    ELSE LET children(pushed) == UNION { visit_nodes(self, pushed[i]) : i \in 1..Len(pushed) }
         IN  {nd} \cup children(collect_relevant_quadrants(
                                   <<>>, nd, self.nodes[nd.index + 1].first_child_or_element,
                                   Quadrants_all, "Query"))

\* The node data of the branches the mutate-mode descent of find_leaves_aabb
\* visits for rect, starting with the nodes of to_process.
RECURSIVE mutation_branches(_, _, _)
mutation_branches(self, to_process, rect) ==
    IF Len(to_process) = 0
    THEN {}
    ELSE LET nd == Back(to_process)
             rest == PopBack(to_process)
             node == self.nodes[nd.index + 1]
         IN  IF Node_is_leaf(node)
             THEN mutation_branches(self, rest, rect)
             ELSE {nd} \cup mutation_branches(
                               self,
                               collect_relevant_quadrants(
                                   rest, nd, node.first_child_or_element,
                                   explore_quadrants_aabb(nd.crect, rect), "Mutate"),
                               rect)

\* The nodes that are branches after a step and were not branches of the
\* tree before it: the leaves the step has split.
SplitBySteps ==
    { nd \in visit_nodes(SelfNext, get_root_node_data(SelfNext)) :
          /\ Node_is_branch(nodes'[nd.index + 1])
          /\ ~\E b \in visit_nodes(Self, get_root_node_data(Self)) :
                  b.index = nd.index /\ Node_is_branch(nodes[b.index + 1]) }

\* The leaves of the tree before a step that the step has split.
LeavesSplitByStep ==
    { nd \in SplitBySteps :
          \E b \in visit_nodes(Self, get_root_node_data(Self)) : b.index = nd.index }

\* A step in which no leaf is split stores the new element in a leaf of the
\* tree: one leaf's count grows by one, all other nodes keep theirs.
StoredDirectly ==
    /\ Len(nodes') = Len(nodes)
    /\ \E i \in 1..Len(nodes) :
           /\ Node_is_leaf(nodes[i])
           /\ nodes'[i].element_count = nodes[i].element_count + 1
           /\ \A k \in 1..Len(nodes) : k # i => nodes'[k] = nodes[k]

\* The nodes of the subtree rooted at node.
RECURSIVE SubtreeNodes(_)
SubtreeNodes(node) ==
    {node}
    \cup (IF Len(node.left) = 1 THEN SubtreeNodes(node.left[1]) ELSE {})
    \cup (IF Len(node.right) = 1 THEN SubtreeNodes(node.right[1]) ELSE {})

\* The nodes of the interval tree.
TreeNodes == IF Len(root) = 1 THEN SubtreeNodes(root[1]) ELSE {}

\* The largest interval.end among the entries of the subtree rooted at node.
MaxEnd(node) ==
    LET ends == {n.entry.interval.end : n \in SubtreeNodes(node)}
    IN  CHOOSE m \in ends : \A e \in ends : e <= m

\* The intervals stored in the tree.
StoredIntervals == {inserted[k].interval : k \in 1..Len(inserted)}

\* The stored intervals that overlap q.
Overlapping(q) == {i \in StoredIntervals : i.start <= q.end /\ q.start <= i.end}

\* The iterator has been stepped until next() returned None.
Exhausted == Len(iter) = 1 /\ it_last.op = "next" /\ it_last.ret = <<>>

\* The closed set of integer points a rectangle covers.
Points(r) == {p \in Coords \X Coords : r.tlx <= p[1] /\ p[1] <= r.brx /\ r.tly <= p[2] /\ p[2] <= r.bry}

\* The points two rectangles have in common.
SharedPoints(a, b) == Points(a) \cap Points(b)

\* The rectangle is a line or a point: zero extent on some axis.
ZeroExtent(r) == r.tlx = r.brx \/ r.tly = r.bry

\* The common points span a positive width and a positive height.
SharedArea(a, b) == \E p, q \in SharedPoints(a, b) : p[1] < q[1] /\ p[2] < q[2]

\* Max-of-mins equals min-of-maxes on some axis.
TouchOnly(a, b) ==
    \/ Max(a.tlx, b.tlx) = Min(a.brx, b.brx)
    \/ Max(a.tly, b.tly) = Min(a.bry, b.bry)

\* Non-strict overlap on both axes.
Contact(a, b) ==
    /\ Max(a.tlx, b.tlx) <= Min(a.brx, b.brx)
    /\ Max(a.tly, b.tly) <= Min(a.bry, b.bry)

\* The position of id in the record of the inserts: larger is newer.
InsertedAt(id) == CHOOSE k \in 1..Len(insertion_order) : insertion_order[k] = id

\* A list of ids runs from the newest insert to the oldest.
NewestFirst(ids) ==
    \A k \in 1..(Len(ids) - 1) : InsertedAt(ids[k]) > InsertedAt(ids[k + 1])

\* The tree after cleanup has been called until a call returned false, with
\* the number of calls made; at most budget calls are made, and done tells
\* whether a call returned false.
RECURSIVE CleanupUntilFalse(_, _, _)
CleanupUntilFalse(self, calls, budget) ==
    IF budget = 0
    THEN [tree |-> self, calls |-> calls, done |-> FALSE]
    ELSE LET next(r) ==
                 IF r.ret
                 THEN CleanupUntilFalse(r.tree, calls + 1, budget - 1)
                 ELSE [tree |-> r.tree, calls |-> calls + 1, done |-> TRUE]
         IN  next(cleanup(self))

(***************************************************************************)
(* Properties.                                                             *)
(***************************************************************************)

\* C1: right after insert(E) has returned Ok, intersect_aabb(E.rect)
\* returns a set that contains E.id.
C1_InsertedElementIsFound ==
    (last.op = "insert" /\ last.ret = "Ok")
        => last.id \in intersect_aabb(Self, RectOf(last.id))

\* C2: remove(E) returns true for every live element E, and after it has
\* returned, no query returns E.id.
C2_RemoveOfLiveElementSucceeds ==
    \A e \in live :
        \E r \in {remove(Self, e)} :
            /\ r.ret
            /\ \A q \in QueryRects :
                   /\ e.id \notin intersect_aabb(r.tree, q)
                   /\ e.id \notin intersect_generic(r.tree, q)

\* C3: the full-tree query collect_ids returns exactly the ids inserted and
\* not yet removed.
C3_CollectIdsIsLiveIds == collect_ids(Self) = LiveIds

\* C4: intersect_aabb(Q) and intersect_generic(Q) return only ids of live
\* elements whose stored rectangle intersects Q.
C4_QueriesReturnOnlyIntersectingLiveIds ==
    \A q \in QueryRects :
        \E hits \in {{e.id : e \in {x \in live : intersects_with(q, x.rect)}}} :
            /\ intersect_aabb(Self, q) \subseteq hits
            /\ intersect_generic(Self, q) \subseteq hits

\* C4 witness: a split tree from which an element has been removed (its slot
\* of element_ids is free) holds two elements, and a query returns one of
\* them and leaves out the other.
C4_Witness ==
    /\ Node_is_branch(nodes[1])
    /\ \E i \in 1..Len(element_ids.data) : element_ids.data[i].tag = "next"
    /\ \E q \in QueryRects :
           /\ intersect_aabb(Self, q) # {}
           /\ intersect_aabb(Self, q) # LiveIds
           /\ intersect_generic(Self, q) # {}
           /\ \A e \in live : InsideRoot(e.rect)

\* C5: in every reachable state, inserting an element with a fresh id (the
\* insert returning Ok) and removing it right away leaves the full-tree
\* query with the set of ids it returned before the insert.
C5_InsertThenRemoveRestoresIds ==
    \A e \in Elements :
        e.id \notin LiveIds =>
            \E r \in {insert(Self, e)} :
                r.ret = "Ok" =>
                    collect_ids(remove(r.tree, e).tree) = collect_ids(Self)

\* C5 witness: a non-empty tree in which the insert of a fresh element
\* splits a leaf and the remove that follows finds the element.
C5_Witness ==
    /\ collect_ids(Self) # {}
    /\ \E e \in Elements :
           /\ e.id \notin LiveIds
           /\ \E r \in {insert(Self, e)} :
                  /\ r.ret = "Ok"
                  /\ Len(r.tree.nodes) > Len(nodes)
                  /\ remove(r.tree, e).ret
                  /\ collect_ids(r.tree) = collect_ids(Self) \cup {e.id}

\* C6: insert rejects every element whose rectangle is not fully contained
\* in the root rectangle, so every stored element rectangle lies entirely
\* inside the root rectangle.
C6_StoredRectsInsideRoot == \A e \in live : InsideRoot(e.rect)

\* C7: an insert that returns OutOfBounds changes nothing: the three
\* free-lists, the node vector and the free-group head keep their values
\* (and so every query keeps its result).
C7_RejectedInsertChangesNothing ==
    [][(last'.op = "insert" /\ last'.ret = "OutOfBounds") => UNCHANGED treeVars]_vars

\* C7 witness: an insert into a split, non-empty tree was rejected.
C7_Witness ==
    /\ last.op = "insert" /\ last.ret = "OutOfBounds"
    /\ live # {}
    /\ Node_is_branch(nodes[1])

\* C8: remove called with an id that is not in the tree returns false and
\* leaves the nodes, the element lists and the free-lists unchanged.
C8_RemoveOfAbsentIdChangesNothing ==
    [][(last'.op = "remove" /\ last'.id \notin LiveIds)
           => (last'.ret = "false" /\ UNCHANGED treeVars)]_vars

\* C8 witness: remove was called with an absent id on a split tree that
\* holds another element, after slots of the element lists had been freed.
C8_Witness ==
    /\ last.op = "remove" /\ last.ret = "false"
    /\ last.id \notin LiveIds
    /\ live # {}
    /\ Node_is_branch(nodes[1])
    /\ \E i \in 1..Len(element_ids.data) : element_ids.data[i].tag = "next"

\* C9: remove does not change the shape of the tree: the node vector keeps
\* its length, the free-group head its value, every node stays a branch or
\* a leaf, and every branch keeps its child group.
C9_RemoveKeepsShape ==
    [][last'.op = "remove" =>
          /\ Len(nodes') = Len(nodes)
          /\ free_node' = free_node
          /\ \A i \in 1..Len(nodes) :
                 /\ Node_is_branch(nodes'[i]) = Node_is_branch(nodes[i])
                 /\ Node_is_branch(nodes[i]) => nodes'[i] = nodes[i]]_vars

\* C9 witness: the last element of a split tree was removed and the root is
\* still a branch that points at its child group.
C9_Witness ==
    /\ last.op = "remove" /\ last.ret = "true"
    /\ live = {}
    /\ count_element_references(Self) = 0
    /\ Node_is_branch(nodes[1])
    /\ nodes[1].first_child_or_element = 1

\* C10: after inserts, a remove call for every inserted element and cleanup
\* calls until one returns false, node 0 is a leaf with element_count 0 and
\* every other node is on the free-group chain.
C10_DrainedTreeIsOneEmptyLeaf ==
    phase = "done" =>
        /\ Node_is_leaf(nodes[1])
        /\ nodes[1].element_count = 0
        /\ FreeGroups(nodes, free_node) = AllGroups(nodes)

\* C11: from every reachable tree, repeated cleanup calls reach a call that
\* returns false after finitely many calls (at most one call per five-node
\* group of the node vector, plus one), and then no reachable branch has five
\* empty-leaf children.
C11_CleanupConverges ==
    \E r \in {CleanupUntilFalse(Self, 0, Cardinality(AllGroups(nodes)) + 1)} :
        /\ r.done
        /\ FoldableBranches(r.tree.nodes) = {}

\* C11 witness: a tree with a nested group and a live element, in which the
\* first cleanup call folds the nested group and the second returns false
\* with the root still a branch.
C11_Witness ==
    /\ live # {}
    /\ Len(nodes) > 6
    /\ \E r \in {CleanupUntilFalse(Self, 0, Cardinality(AllGroups(nodes)) + 1)} :
           /\ r.done
           /\ r.calls = 2
           /\ Node_is_branch(r.tree.nodes[1])
           /\ r.tree.free_node # free_node

\* C12: cleanup returns true exactly when it folded at least one five-node
\* group; it returns false and changes nothing when the root is a leaf or no
\* reachable branch has five empty-leaf children.
C12_CleanupReportsChange ==
    [][last'.op = "cleanup" =>
          /\ (last'.ret = "true") =
                 (FreeGroups(nodes', free_node') # FreeGroups(nodes, free_node))
          /\ (last'.ret = "true") = (treeVars' # treeVars)
          /\ FoldableBranches(nodes) = {} => last'.ret = "false"]_vars

\* C12 witness: cleanup returned false on a split tree because a leaf still
\* holds an element, although other groups had been folded before.
C12_Witness ==
    /\ last.op = "cleanup" /\ last.ret = "false"
    /\ Node_is_branch(nodes[1])
    /\ live # {}
    /\ free_node # SENTINEL

\* C13: for every query rectangle, intersect_generic with the rectangle as
\* the shape returns the same id set as intersect_aabb.
C13_GenericEqualsAabb ==
    \A q \in QueryRects : intersect_generic(Self, q) = intersect_aabb(Self, q)

\* C14: in every state in which all live elements lie inside the root,
\* count_element_references is at least the number of live elements, and at
\* least the lengths of element_ids and element_rects that its two debug
\* assertions compare it with.
C14_ReferencesCoverLiveElements ==
    (\A e \in live : InsideRoot(e.rect)) =>
        \E count \in {count_element_references(Self)} :
            /\ count >= Cardinality(live)
            /\ count >= FreeList_debug_len(element_ids)
            /\ count >= FreeList_debug_len(element_rects)

\* C14 witness: a split tree holds two elements inside the root, one of them
\* moved into a child by the split, after an element had been removed.
C14_Witness ==
    /\ Cardinality(live) = 2
    /\ \A e \in live : InsideRoot(e.rect)
    /\ Node_is_branch(nodes[1])
    /\ \E i \in 1..Len(element_nodes.data) : element_nodes.data[i].tag = "next"
    /\ count_element_references(Self) = 2

\* C15: in the six-element seed tree, removing id 1000 leaves 5 ids in a
\* full-tree query and reduces count_element_references by 3.
C15_SeedRemoveFirst ==
    [][(last.op = "new" /\ last'.op = "remove" /\ last'.id = 1000) =>
          /\ Cardinality(collect_ids(SelfNext)) = 5
          /\ count_element_references(SelfNext) = count_element_references(Self) - 3]_vars

\* C16: insert never splits a leaf whose depth equals max_depth, whose cell
\* half-extents are less than or equal to smallest_cell_size, or that is a
\* straddler bucket; such a leaf takes the element directly even when full;
\* and a leaf with element_count < max_num_elements is never split.
C16_SplitRules ==
    [][(last'.op = "insert" /\ last'.ret = "Ok") =>
          /\ \A nd \in SplitBySteps :
                 /\ nd.depth < max_depth
                 /\ ~(/\ nd.crect.half_width <= smallest_cell_size
                      /\ nd.crect.half_height <= smallest_cell_size)
                 /\ nd.can_split
          /\ \A nd \in LeavesSplitByStep :
                 nodes[nd.index + 1].element_count >= max_num_elements
          /\ SplitBySteps = {} => StoredDirectly]_vars

\* C16 as amended: insert never splits a leaf whose depth equals max_depth,
\* whose cell half-width and half-height are both less than
\* smallest_cell_size, or that is a straddler bucket; such a leaf takes the
\* element directly even when full; and a leaf with element_count <
\* max_num_elements is never split.
C16_SplitRulesAmended ==
    [][(last'.op = "insert" /\ last'.ret = "Ok") =>
          /\ \A nd \in SplitBySteps :
                 /\ nd.depth < max_depth
                 /\ ~(/\ nd.crect.half_width < smallest_cell_size
                      /\ nd.crect.half_height < smallest_cell_size)
                 /\ nd.can_split
          /\ \A nd \in LeavesSplitByStep :
                 nodes[nd.index + 1].element_count >= max_num_elements
          /\ SplitBySteps = {} => StoredDirectly]_vars

\* C16 witness: an insert has stored its element in a quadrant leaf above
\* max_depth that already held max_num_elements elements, because the
\* leaf's cell is smaller than smallest_cell_size.
C16_Witness ==
    /\ last.op = "insert" /\ last.ret = "Ok"
    /\ \E nd \in visit_nodes(Self, get_root_node_data(Self)) :
           /\ Node_is_leaf(nodes[nd.index + 1])
           /\ nd.can_split
           /\ nd.depth < max_depth
           /\ nd.crect.half_width < smallest_cell_size
           /\ nodes[nd.index + 1].element_count > max_num_elements
           /\ FreeList_at(element_ids,
                  FreeList_at(element_nodes,
                      nodes[nd.index + 1].first_child_or_element).element_idx) = last.id

\* C17: in every reachable state each leaf's element list is in
\* reverse-chronological insertion order, the most recently inserted element
\* at the head, also in the leaves created when a full leaf is split.
C17_LeafListsNewestFirst ==
    \A nd \in visit_nodes(Self, get_root_node_data(Self)) :
        Node_is_leaf(nodes[nd.index + 1]) =>
            NewestFirst(leaf_element_ids(Self, nodes[nd.index + 1].first_child_or_element))

\* C18: AABB::intersects_with is symmetric for all pairs of rectangles, and
\* reflexive for every rectangle with tl <= br on both axes, lines and points
\* included.
C18_SymmetricAndReflexive ==
    result # "none" =>
        /\ result = BoolStr(intersects_with(other_rect, self_rect))
        /\ (/\ self_rect = other_rect
            /\ self_rect.tlx <= self_rect.brx
            /\ self_rect.tly <= self_rect.bry) => result = "true"

\* A line was tested against itself.
C18_Witness ==
    /\ result = "true"
    /\ self_rect = other_rect
    /\ ZeroExtent(self_rect)
    /\ self_rect.tlx < self_rect.brx

\* C19 as stated: intersects_with(a, b) is true if and only if the closed sets
\* of integer points covered by a and by b share at least one point.
C19_TrueIffSharedPoint ==
    result # "none" =>
        ((result = "true") <=> (SharedPoints(self_rect, other_rect) # {}))

\* C19 amended: intersects_with(a, b) is true if and only if the closed point
\* sets share at least one point and, when neither rectangle has zero extent
\* on an axis, the shared points span a positive width and height.
C19_TrueIffSharedPointOrArea ==
    result # "none" =>
        ((result = "true") <=>
            /\ SharedPoints(self_rect, other_rect) # {}
            /\ \/ ZeroExtent(self_rect)
               \/ ZeroExtent(other_rect)
               \/ SharedArea(self_rect, other_rect))

\* A point on the corner of a rectangle with positive extent.
C19_Witness ==
    /\ result = "true"
    /\ self_rect.tlx = self_rect.brx /\ self_rect.tly = self_rect.bry
    /\ ~ZeroExtent(other_rect)
    /\ Cardinality(SharedPoints(self_rect, other_rect)) = 1
    /\ ~SharedArea(self_rect, other_rect)

\* C20: two non-degenerate rectangles that only touch along an edge or at a
\* corner do not intersect; when either rectangle has zero extent on some
\* axis, non-strict overlap on both axes counts as an intersection.
C20_TouchingPolicy ==
    result # "none" =>
        /\ (/\ ~ZeroExtent(self_rect)
            /\ ~ZeroExtent(other_rect)
            /\ TouchOnly(self_rect, other_rect)) => result = "false"
        /\ (/\ ZeroExtent(self_rect) \/ ZeroExtent(other_rect)
            /\ Contact(self_rect, other_rect)) => result = "true"

\* Two rectangles with positive extent that share an edge.
C20_Witness ==
    /\ result = "false"
    /\ ~ZeroExtent(self_rect)
    /\ ~ZeroExtent(other_rect)
    /\ self_rect.tlx < self_rect.brx /\ self_rect.tly < self_rect.bry
    /\ other_rect.tlx < other_rect.brx /\ other_rect.tly < other_rect.bry
    /\ self_rect.brx = other_rect.tlx
    /\ Cardinality(SharedPoints(self_rect, other_rect)) > 1

\* C21: FreeList::insert returns a previously erased handle whenever one
\* exists that was not reused, the most recently erased first, and appends a
\* new slot only when none exists: after erasing k distinct live handles the
\* next k inserts return those handles in reverse order of erasure and
\* capacity() does not grow.
C21_InsertReusesErasedHandles ==
    [][(fl_last'.op = "insert" /\ ~misused) =>
          IF erased # <<>>
          THEN /\ fl_last'.index = Back(erased)
               /\ FreeList_capacity(list') = FreeList_capacity(list)
          ELSE /\ fl_last'.index = FreeList_capacity(list)
               /\ FreeList_capacity(list') = FreeList_capacity(list) + 1]_vars

\* C22: across any sequence of FreeList insert and erase calls, insert never
\* returns a handle that is live, and the value stored under a live handle is
\* unchanged by inserts and by erases of other handles.
C22_LiveHandlesAreStable ==
    [][/\ fl_last'.op = "insert" => fl_last'.index \notin LiveHandles
       /\ \A h \in LiveHandles :
             \/ fl_last'.op = "erase" /\ fl_last'.index = h
             \/ list'.data[h + 1] = LiveCell(handles[h])]_vars

\* An insert reused an erased handle next to a live one.
C22_Witness ==
    /\ fl_last.op = "insert"
    /\ fl_last.ret = "reused"
    /\ Cardinality(LiveHandles) >= 2
    /\ \E h \in LiveHandles : handles[h] # handles[fl_last.index]

\* C23: in debug builds, FreeList::erase on a handle that is already erased
\* and was not handed out again is detected: the debug assertion in erase
\* fails rather than the call completing.
C23_DoubleEraseIsDetected ==
    fl_last.op = "erase_again" => fl_last.ret = "panic"

\* C24: for any sequence of inserts into an IntervalTree and any query
\* interval q, overlap_search(q) returns Some(entry) whose interval overlaps q
\* if at least one stored interval overlaps q, and returns None if and only
\* if no stored interval overlaps q.
C24_OverlapSearchFindsAnOverlap ==
    it_last.op = "overlap_search" =>
        IF Overlapping(it_last.q) # {}
        THEN Len(it_last.ret) = 1 /\ it_last.ret[1] \in Overlapping(it_last.q)
        ELSE it_last.ret = <<>>

\* C25: after any sequence of inserts, every interval-tree node's max field
\* equals the maximum interval.end over all entries in the subtree rooted at
\* that node.
C25_MaxIsSubtreeMaximum ==
    \A n \in TreeNodes : n.max = MaxEnd(n)

\* C26: for any sequence of inserts, iter_inorder yields entries in
\* non-decreasing order of interval.start: every left-subtree start is
\* strictly less than its ancestor's start, every right-subtree start is
\* greater or equal (ties go right).
C26_InorderIsSortedByStart ==
    /\ \A k \in 1..(Len(yielded) - 1) :
           yielded[k].interval.start <= yielded[k + 1].interval.start
    /\ \A n \in TreeNodes :
           /\ Len(n.left) = 1 =>
                  \A m \in SubtreeNodes(n.left[1]) :
                      m.entry.interval.start < n.entry.interval.start
           /\ Len(n.right) = 1 =>
                  \A m \in SubtreeNodes(n.right[1]) :
                      m.entry.interval.start >= n.entry.interval.start

\* A tree with a left child and a tie was iterated to its end.
C26_Witness ==
    /\ Exhausted
    /\ Len(yielded) = MaxEntries
    /\ Len(root[1].left) = 1
    /\ \E k \in 1..(Len(yielded) - 1) :
           yielded[k].interval.start = yielded[k + 1].interval.start

\* C27 as stated: the number of items yielded by stepping iter_inorder() to
\* exhaustion equals len(), equals count() and both bounds of size_hint() of
\* a fresh iterator, and equals the number of entries inserted.
C27_LengthsAgree ==
    Exhausted =>
        \E n \in {Len(yielded)} :
            /\ n = IntervalTree_len(root)
            /\ n = InorderIterator_count(IntervalTree_iter_inorder(root))
            /\ InorderIterator_size_hint(IntervalTree_iter_inorder(root))
                   = [lo |-> n, hi |-> <<n>>]
            /\ n = Len(inserted)

\* C27 amended: as C27, with the upper bound of size_hint() equal to that
\* number only for a tree that holds an entry; for the empty tree it is None.
C27_LengthsAgreeWhenNotEmpty ==
    Exhausted =>
        \E n \in {Len(yielded)} :
            /\ n = IntervalTree_len(root)
            /\ n = InorderIterator_count(IntervalTree_iter_inorder(root))
            /\ InorderIterator_size_hint(IntervalTree_iter_inorder(root))
                   = [lo |-> n, hi |-> IF Len(inserted) = 0 THEN <<>> ELSE <<n>>]
            /\ n = Len(inserted)

\* A tree that holds the same interval twice was iterated to its end.
C27_Witness ==
    /\ Exhausted
    /\ Len(inserted) = MaxEntries
    /\ \E j, k \in 1..Len(inserted) :
           j # k /\ inserted[j].interval = inserted[k].interval

\* C28: all IntervalTree operations are total on an empty tree: len() is 0,
\* is_empty() is true, overlap_search(q) returns None for every q,
\* iter_inorder yields zero items and its size_hint is (0, None).
C28_EmptyTreeIsTotal ==
    Len(inserted) = 0 =>
        /\ IntervalTree_len(root) = 0
        /\ IntervalTree_is_empty(root)
        /\ it_last.op = "overlap_search" => it_last.ret = <<>>
        /\ it_last.op = "next" => it_last.ret = <<>>
        /\ yielded = <<>>
        /\ InorderIterator_size_hint(IntervalTree_iter_inorder(root))
               = [lo |-> 0, hi |-> <<>>]

\* The iterator of an empty tree was stepped.
C28_Witness ==
    /\ Len(inserted) = 0
    /\ it_last.op = "next"
    /\ iter = <<InorderIterator_empty>>

\* C29: at every branch, mutate-mode descent (used by insert and remove)
\* selects for a rectangle the same child offset that split redistribution
\* (assign_element_to_child_nodes) assigns to that rectangle, which is also
\* the value of Quadrants::mutation_index for the classifier's result.
C29_DescentAgreesWithRedistribution ==
    \A rect \in InputRects :
        \A nd \in mutation_branches(Self, <<get_root_node_data(Self)>>, rect) :
            \E q \in {explore_quadrants_aabb(nd.crect, rect)} :
                /\ mutation_offset(q) = assign_offset(nd.crect.center_x, nd.crect.center_y, rect)
                /\ mutation_offset(q) = Quadrants_mutation_index(q)

\* C30: the debug assertion at the top of
\* collect_relevant_quadrants_for_mutation (the XOR of the five slot flags)
\* holds at every branch visited by every insert and remove, for every
\* rectangle with tl <= br.
C30_MutationAssertionHolds ==
    \A rect \in InputRects :
        \A nd \in mutation_branches(Self, <<get_root_node_data(Self)>>, rect) :
            mutation_debug_assert(explore_quadrants_aabb(nd.crect, rect))

\* The element slots of a leaf's element list, head first.
RECURSIVE ListOf(_, _)
ListOf(self, elem_node_idx) ==
    IF elem_node_idx = SENTINEL
    THEN <<>>
    ELSE LET elem_node == FreeList_at(self.element_nodes, elem_node_idx)
         IN  <<elem_node.element_idx>> \o ListOf(self, elem_node.next)

\* The number of times the list of the leaf at index refers to element slot e.
TimesIn(self, index, e) ==
    LET elems == ListOf(self, self.nodes[index + 1].first_child_or_element)
    IN  Cardinality({k \in 1..Len(elems) : elems[k] = e})

\* The reachable leaves of the tree.
ReachableLeaves(self) ==
    {i \in ReachableNodes(self.nodes, 0) : Node_is_leaf(self.nodes[i + 1])}

\* The number of references to element slot e from the lists of the leaves
\* in the set.
RECURSIVE ReferencesFrom(_, _, _)
ReferencesFrom(self, leaves, e) ==
    IF leaves = {}
    THEN 0
    ELSE LET i == CHOOSE i \in leaves : TRUE
         IN  TimesIn(self, i, e) + ReferencesFrom(self, leaves \ {i}, e)

\* The number of references to element slot e from reachable leaves.
References(self, e) == ReferencesFrom(self, ReachableLeaves(self), e)

\* The element slots of the tree.
Slots(self) == 0..(FreeList_capacity(self.element_ids) - 1)

\* The child a rectangle belongs to in a cell with centre (mx, my): the
\* straddler bucket when it crosses a centre line, otherwise its quadrant,
\* the centre lines counting as part of the top and left halves.
ChildFor(mx, my, rect) ==
    IF (rect.tlx <= mx /\ mx < rect.brx) \/ (rect.tly <= my /\ my < rect.bry)
    THEN 0
    ELSE (IF rect.bry <= my THEN 1 ELSE 3) + (IF rect.brx <= mx THEN 0 ELSE 1)

RECURSIVE leaf_callbacks(_, _, _)
leaf_callbacks(self, rect, elem_node_idx) ==
    IF elem_node_idx = SENTINEL
    THEN <<>>
    ELSE LET elem_node == FreeList_at(self.element_nodes, elem_node_idx)
             elem_rect == FreeList_at(self.element_rects, elem_node.element_idx)
             hit == IF intersects_with(rect, elem_rect)
                    THEN <<FreeList_at(self.element_ids, elem_node.element_idx)>>
                    ELSE <<>>
         IN  hit \o leaf_callbacks(self, rect, elem_node.next)

\* intersect_from_leaves with a callback that records its calls: the leaves
\* are taken from the back of the vector.
RECURSIVE intersect_from_leaves_fn(_, _, _)
intersect_from_leaves_fn(self, rect, leaves) ==
    IF Len(leaves) = 0
    THEN <<>>
    ELSE leaf_callbacks(self, rect, self.nodes[Back(leaves).index + 1].first_child_or_element)
         \o intersect_from_leaves_fn(self, rect, PopBack(leaves))

intersect_aabb_fn(self, rect) ==
    intersect_from_leaves_fn(self, rect,
        find_leaves_aabb(self, get_root_node_data(self), rect, "Query"))

intersect_generic_fn(self, element) ==
    intersect_from_leaves_fn(self, element,
        find_leaves_generic(self, get_root_node_data(self), element))

\* No value occurs twice in the sequence.
NoRepeats(s) == \A i, j \in 1..Len(s) : s[i] = s[j] => i = j

\* The slots of element_ids that hold an id.
LiveSlots(self) ==
    {s \in Slots(self) : self.element_ids.data[s + 1].tag = "element"}

C33_CountIsListLength ==
    \A i \in ReachableLeaves(Self) :
        /\ nodes[i + 1].element_count =
               Len(ListOf(Self, nodes[i + 1].first_child_or_element))
        /\ (nodes[i + 1].element_count = 0) <=>
               (nodes[i + 1].first_child_or_element = SENTINEL)

\* A remove has unlinked an element from a list that still holds another
\* one, in a tree that also has an empty leaf.
C33_Witness ==
    /\ last.op = "remove"
    /\ last.ret = "true"
    /\ \E i \in ReachableLeaves(Self) : nodes[i + 1].element_count = 2
    /\ \E i \in ReachableLeaves(Self) : nodes[i + 1].element_count = 0

\* The first budget group heads of the chain that starts at index, in chain
\* order.
RECURSIVE FreeChain(_, _, _)
FreeChain(ns, index, budget) ==
    IF index = SENTINEL \/ budget = 0
    THEN <<>>
    ELSE <<index>> \o FreeChain(ns, ns[index + 1].first_child_or_element, budget - 1)

\* The reachable branches whose child group starts at g.
Owners(ns, g) ==
    {i \in ReachableNodes(ns, 0) :
         Node_is_branch(ns[i + 1]) /\ ns[i + 1].first_child_or_element = g}

IsSuffix(s, t) ==
    /\ Len(s) <= Len(t)
    /\ \A i \in 1..Len(s) : s[i] = t[Len(t) - Len(s) + i]

\* What ensure_child_nodes_exist hands out for the tree self: the head of the
\* free chain, with free_node moved to the next group of the chain and the
\* node vector as long as before, or five nodes appended when the chain is
\* empty; in both cases five empty leaves, all other nodes as they were.
HandsOutEmptyLeaves(self) ==
    \E r \in {ensure_child_nodes_exist(self)} :
    \E chain \in {FreeChain(self.nodes, self.free_node, Len(self.nodes))} :
        /\ IF Len(chain) > 0
           THEN /\ r.index = chain[1]
                /\ Len(r.tree.nodes) = Len(self.nodes)
                /\ r.tree.free_node = IF Len(chain) > 1 THEN chain[2] ELSE SENTINEL
           ELSE /\ r.index = Len(self.nodes)
                /\ Len(r.tree.nodes) = Len(self.nodes) + 5
                /\ r.tree.free_node = SENTINEL
        /\ \A j \in 0..4 : r.tree.nodes[r.index + j + 1] = Node_default
        /\ \A i \in 1..Len(self.nodes) :
               (i < r.index + 1 \/ i > r.index + 5) => r.tree.nodes[i] = self.nodes[i]

C36_CleanupKeepsElementsAndQueries ==
    [][last'.op = "cleanup" =>
          /\ UNCHANGED <<element_ids, element_rects, element_nodes>>
          /\ \A s \in Slots(Self) : References(SelfNext, s) = References(Self, s)
          /\ \A q \in QueryRects :
                 /\ intersect_aabb(SelfNext, q) = intersect_aabb(Self, q)
                 /\ intersect_generic(SelfNext, q) = intersect_generic(Self, q)]_vars

\* A cleanup has folded a group of a tree that still holds an element below
\* the root.
C36_Witness ==
    /\ last.op = "cleanup"
    /\ last.ret = "true"
    /\ Node_is_branch(nodes[1])
    /\ live # {}
    /\ intersect_aabb(Self, QuadRect_into_AABB(root_rect)) # {}

\* The reachable branches of the tree.
ReachableBranches(self) ==
    {i \in ReachableNodes(self.nodes, 0) : Node_is_branch(self.nodes[i + 1])}

\* C37: an insert call returns after at most max_depth splits (every split
\* adds one reachable branch and insert removes none), no node of the tree
\* is reachable at a depth greater than max_depth, and with max_depth = 0
\* the root stays a leaf.
C37_SplitsBoundedByMaxDepth ==
    [][/\ last'.op = "insert" =>
              Cardinality(ReachableBranches(SelfNext))
                  <= Cardinality(ReachableBranches(Self)) + max_depth
       /\ \A nd \in visit_nodes(SelfNext, get_root_node_data(SelfNext)) :
              nd.depth <= max_depth
       /\ max_depth = 0 => Node_is_leaf(nodes'[1])]_vars

\* An insert has stored its element in a leaf at depth max_depth of a tree
\* that allows two levels of splits.
C37_Witness ==
    /\ last.op = "insert"
    /\ max_depth = 2
    /\ \E nd \in visit_nodes(Self, get_root_node_data(Self)) :
           /\ nd.depth = max_depth
           /\ Node_is_leaf(nodes[nd.index + 1])
           /\ ~Node_is_empty(nodes[nd.index + 1])

\* The sum of the element counts of the first n reports.
RECURSIVE SumOfCounts(_, _)
SumOfCounts(infos, n) ==
    IF n = 0 THEN 0 ELSE infos[n].element_count + SumOfCounts(infos, n - 1)

\* The depth of the reachable node at index: 0 for the root, the depth of
\* its parent for a straddler bucket, one more for a quadrant child.
RECURSIVE DepthOf(_, _)
DepthOf(ns, index) ==
    IF index = 0
    THEN 0
    ELSE LET parent == CHOOSE p \in ReachableNodes(ns, 0) :
                           /\ Node_is_branch(ns[p + 1])
                           /\ ns[p + 1].first_child_or_element <= index
                           /\ index <= ns[p + 1].first_child_or_element + 4
         IN  IF index = ns[parent + 1].first_child_or_element
             THEN DepthOf(ns, parent)
             ELSE DepthOf(ns, parent) + 1

\* C38: visit_leaves calls the visitor exactly once for every reachable
\* leaf and for nothing else, with the leaf's element_count, so that the
\* counts add up to count_element_references(); a straddler bucket is
\* reported at the depth of its parent and a quadrant leaf one level deeper.
C38_VisitLeavesReportsEachLeafOnce ==
    \E infos \in {visit_leaves(Self)} :
        /\ \A i \in ReachableLeaves(Self) :
               Cardinality({k \in 1..Len(infos) : infos[k].nd.index = i}) = 1
        /\ \A k \in 1..Len(infos) :
               /\ infos[k].nd.index \in ReachableLeaves(Self)
               /\ infos[k].element_count = nodes[infos[k].nd.index + 1].element_count
               /\ infos[k].nd.depth = DepthOf(nodes, infos[k].nd.index)
        /\ SumOfCounts(infos, Len(infos)) = count_element_references(Self)

\* visit_leaves reports nine leaves of a tree split twice, two of them with
\* elements, while a freed group exists that it does not report.
C38_Witness ==
    /\ Len(visit_leaves(Self)) = 9
    /\ free_node # SENTINEL
    /\ Cardinality({i \in ReachableLeaves(Self) : ~Node_is_empty(nodes[i + 1])}) = 2

\* The position of a state in the order Initial, EmitLeft, EmitSelf,
\* EmitRight, Done.
Rank(state) ==
    CASE state.tag = "Initial" -> 0
      [] state.tag = "EmitLeft" -> 1
      [] state.tag = "EmitSelf" -> 2
      [] state.tag = "EmitRight" -> 3
      [] state.tag = "Done" -> 4

\* One next() call took the iterator from before to after and returned item:
\* the state has not moved backwards, EmitLeft and EmitRight hold an iterator
\* over the child that exists on that side, the node's own entry is returned
\* exactly by the call that leaves EmitSelf behind, an iterator without a
\* root stays as it is and returns None, and the same holds of the
\* sub-iterator the call has advanced.
RECURSIVE MovesForward(_, _, _)
MovesForward(before, after, item) ==
    IF Len(before.root) = 0
    THEN after = before /\ item = <<>>
    ELSE LET node == before.root[1]
             from == before.current_state
             to == after.current_state
         IN  /\ after.root = before.root
             /\ Rank(to) >= Rank(from)
             /\ to.tag = "EmitLeft" =>
                    Len(node.left) = 1 /\ to.iter[1].root = node.left
             /\ to.tag = "EmitRight" =>
                    Len(node.right) = 1 /\ to.iter[1].root = node.right
             /\ (item = <<node.entry>>) <=> (Rank(from) <= 2 /\ Rank(to) >= 3)
             /\ (to.tag = from.tag /\ Len(to.iter) = 1) =>
                    MovesForward(from.iter[1], to.iter[1], item)

\* C39: every next() call moves the state of the iterator, and of the
\* sub-iterators it holds, forward in the order Initial, EmitLeft (only with
\* a left child), EmitSelf, EmitRight (only with a right child), Done; a
\* node's entry is returned by the call that leaves EmitSelf and by no
\* other; after a call that returned None every call returns None.
C39_IteratorStateMovesForward ==
    [][it_last'.op = "next" =>
          /\ MovesForward(iter[1], iter'[1], it_last'.ret)
          /\ (it_last.op = "next" /\ it_last.ret = <<>>) => it_last'.ret = <<>>
          /\ it_last'.ret = <<>> => Rank(iter'[1].current_state) = 4]_vars

\* The iterator over a tree whose root has a left and a right child has
\* returned the three entries and then None.
C39_Witness ==
    /\ Exhausted
    /\ Len(yielded) = 3
    /\ Len(root) = 1
    /\ Len(root[1].left) = 1
    /\ Len(root[1].right) = 1
    /\ iter[1].current_state = State_Done

\* The items repeated next() calls return until the first None, for an
\* iterator over at most budget entries.
RECURSIVE NextUntilNone(_, _)
NextUntilNone(it, budget) ==
    IF budget = 0
    THEN <<>>
    ELSE LET continue(r) ==
                 IF Len(r.item) = 0
                 THEN <<>>
                 ELSE r.item \o NextUntilNone(r.iter, budget - 1)
         IN  continue(InorderIterator_next(it))

\* C40: for every tree the entries next() returns on iter_inorder(), up to
\* the first None, are the entries for_each passes to its callback, in the
\* same order, and the entries collect_inorder collects; the entries returned
\* so far by the iterator in use are a prefix of them, all of them once it is
\* exhausted; last() returns the final entry, or None for the empty tree.
C40_NextAgreesWithRecursiveInorder ==
    \E expected \in {InorderIterator_for_each(IntervalTree_iter_inorder(root))} :
        /\ NextUntilNone(IntervalTree_iter_inorder(root), MaxEntries + 1) = expected
        /\ Len(root) = 1 => collect_inorder(root[1], <<>>) = expected
        /\ Len(iter) = 1 =>
               /\ Len(yielded) <= Len(expected)
               /\ yielded = SubSeq(expected, 1, Len(yielded))
        /\ Exhausted => yielded = expected
        /\ InorderIterator_last(IntervalTree_iter_inorder(root)) =
               IF Len(expected) = 0 THEN <<>> ELSE <<expected[Len(expected)]>>

\* An iterator over a tree of three entries whose root has a left child with
\* a right child of its own has been exhausted.
C40_Witness ==
    /\ Exhausted
    /\ Len(yielded) = 3
    /\ Len(root[1].left) = 1
    /\ Len(root[1].left[1].right) = 1
    /\ InorderIterator_last(IntervalTree_iter_inorder(root)) = <<root[1].entry>>

============================================================================
